---- MODULE Spec2Model ----
(***************************************************************************)
(* Model of the mewt mutation-testing engine: the catalog (targets,        *)
(* mutants, outcomes), the `test` and `run` commands that drive the test   *)
(* runner over (command, timeout) groups, the Ctrl-C handler that flips    *)
(* the shared `running` flag, and the exit code computed by run_main.      *)
(***************************************************************************)
EXTENDS Integers, Sequences, FiniteSets, TLC

\* Option::None
None == "None"

(***************************************************************************)
(* Bounds                                                                  *)
(***************************************************************************)
\* number of mutant rows in the catalog (a prefix of MutantRows)
MaxMutants == 4
\* longest id list handed to the `test` command
MaxIds == 2

(***************************************************************************)
(* Catalog contents: targets and mutants                                   *)
(***************************************************************************)
\* rows of the `targets` table: ids
TargetIds == {1, 2}

\* Target.path
TargetPath(t) == IF t = 1 THEN "src/a.rs" ELSE "src/b.rs"

\* Target.text, one element per byte
TargetText(t) == IF t = 1 THEN <<"f", ";", "\n", "g", ";">> ELSE <<"h", ";">>

\* rows of the `mutants` table, in id order; the catalog holds the first
\* MaxMutants of them. Every row satisfies old_text = text[byte_offset ..].
MutantRows ==
  << [id |-> 1, target_id |-> 1, byte_offset |-> 0, line_offset |-> 0,
      old_text |-> <<"f", ";">>, new_text |-> <<"!">>, mutation_slug |-> "ER"],
     [id |-> 2, target_id |-> 1, byte_offset |-> 0, line_offset |-> 0,
      old_text |-> <<"f", ";">>, new_text |-> <<"/", "f", ";", "/">>, mutation_slug |-> "CR"],
     [id |-> 3, target_id |-> 2, byte_offset |-> 0, line_offset |-> 0,
      old_text |-> <<"h", ";">>, new_text |-> <<"!">>, mutation_slug |-> "ER"],
     [id |-> 4, target_id |-> 1, byte_offset |-> 3, line_offset |-> 1,
      old_text |-> <<"g", ";">>, new_text |-> <<"/", "g", ";", "/">>, mutation_slug |-> "CR"],
     [id |-> 5, target_id |-> 2, byte_offset |-> 0, line_offset |-> 0,
      old_text |-> <<"h", ";">>, new_text |-> <<"/", "h", ";", "/">>, mutation_slug |-> "CR"],
     [id |-> 6, target_id |-> 1, byte_offset |-> 3, line_offset |-> 1,
      old_text |-> <<"g", ";">>, new_text |-> <<"!">>, mutation_slug |-> "ER"] >>

\* ids of the mutant rows present in the catalog
MutantIds == 1..MaxMutants

\* SqlStore::get_mutant: Ok(row) for a known id, Err(NotFound) otherwise
get_mutant(id) == IF id \in MutantIds THEN MutantRows[id] ELSE None

\* SqlStore::get_target: Ok(row) for a known id, Err(NotFound) otherwise
get_target(t) ==
  IF t \in TargetIds THEN [id |-> t, path |-> TargetPath(t), text |-> TargetText(t)]
  ELSE None

(***************************************************************************)
(* Target::mutate and Target::restore                                      *)
(***************************************************************************)
\* Target::mutate: prefix ++ new_text ++ suffix, Err on a foreign mutant
mutate(t, m) ==
  IF m.target_id # t /\ m.target_id # 0 THEN None
  ELSE LET content == TargetText(t)
           prefix == SubSeq(content, 1, m.byte_offset)
           suffix == SubSeq(content, m.byte_offset + Len(m.old_text) + 1, Len(content))
       IN prefix \o m.new_text \o suffix

\* a restore that leaves the file as it is
restore_noop(d, t) == d

\* a restore that writes the text to the path of the other target
restore_wrong_path(d, t) == [d EXCEPT ![TargetPath(3 - t)] = TargetText(t)]

\* Target::restore: fs::write(&self.path, &self.text)
restore(d, t) == [d EXCEPT ![TargetPath(t)] = TargetText(t)]

(***************************************************************************)
(* Configuration and test-command resolution                               *)
(***************************************************************************)
\* the configurations the commands are run under: CLI overrides, the global
\* [test] section and the ordered per_target rules
Configs ==
  { [cli_cmd |-> None, cli_timeout |-> None, cmd |-> "make test", timeout |-> "30",
     per_target |-> << >>],
    [cli_cmd |-> None, cli_timeout |-> None, cmd |-> "make test", timeout |-> None,
     per_target |-> << [glob |-> "src/b.rs", cmd |-> "make b", timeout |-> "10"] >>],
    [cli_cmd |-> "cli test", cli_timeout |-> None, cmd |-> "make test", timeout |-> "30",
     per_target |-> << [glob |-> "src/b.rs", cmd |-> "make b", timeout |-> "10"] >>],
    [cli_cmd |-> None, cli_timeout |-> None, cmd |-> None, timeout |-> None,
     per_target |-> << [glob |-> "src/b.rs", cmd |-> "make b", timeout |-> "10"] >>] }

\* Option::or
or(a, b) == IF a # None THEN a ELSE b

\* glob_matches: the paths a pattern matches; an invalid pattern matches none
glob_matches(pattern, path) ==
  CASE pattern = "src/b.rs" -> path = "src/b.rs"
    [] pattern = "src/a.rs" -> path = "src/a.rs"
    [] pattern = "src/*.rs" -> path \in {"src/a.rs", "src/b.rs"}
    [] OTHER -> FALSE

\* cmd.trim().is_empty()
trim_is_empty(s) == s \in {"", " "}

\* the per_target loop of resolve_test_for_path from rule i on
RECURSIVE first_rule(_, _, _, _)
first_rule(c, path, resolved_timeout, i) ==
  IF i > Len(c.per_target) THEN <<c.cmd, or(resolved_timeout, c.timeout)>>
  ELSE LET rule == c.per_target[i] IN
       IF glob_matches(rule.glob, path) /\ rule.cmd # None
       THEN <<rule.cmd, or(or(resolved_timeout, rule.timeout), c.timeout)>>
       ELSE first_rule(c, path, resolved_timeout, i + 1)

\* a resolution in which a matching rule beats the CLI command
resolve_rules_over_cli(c, path, resolved_cmd, resolved_timeout) ==
  LET r == first_rule(c, path, resolved_timeout, 1) IN
    IF r[1] # None /\ r[1] # c.cmd THEN r ELSE <<resolved_cmd, resolved_timeout>>

\* resolve_test_for_path: the (command, timeout) pair for a target path
resolve_test_for_path(c, path, resolved_cmd, resolved_timeout) ==
  IF resolved_cmd # None /\ ~trim_is_empty(resolved_cmd)
  THEN <<resolved_cmd, resolved_timeout>>
  ELSE first_rule(c, path, resolved_timeout, 1)

(***************************************************************************)
(* Mutation table and severity                                             *)
(***************************************************************************)
\* the mutation descriptors of a rulebook: (slug, severity)
Mutations ==
  << [slug |-> "ER", severity |-> "High"],
     [slug |-> "CR", severity |-> "Low"] >>

\* a lookup that answers with the severity of the first descriptor
get_severity_first(slug) == Mutations[1].severity

\* LanguageEngine::get_severity_by_slug: first descriptor with that slug
get_severity_by_slug(slug) ==
  IF \E i \in 1..Len(Mutations) : Mutations[i].slug = slug
  THEN LET i == CHOOSE i \in 1..Len(Mutations) :
                  /\ Mutations[i].slug = slug
                  /\ \A j \in 1..(i - 1) : Mutations[j].slug # slug
       IN Mutations[i].severity
  ELSE None

\* MutationSeverity as an order: High > Medium > Low
severity_rank(sev) ==
  CASE sev = "High" -> 3 [] sev = "Medium" -> 2 [] sev = "Low" -> 1 [] OTHER -> 0

(***************************************************************************)
(* Outcomes table                                                          *)
(***************************************************************************)
\* SqlStore::get_outcome: the row of a mutant, or None
get_outcome(outs, mutant_id) ==
  IF \E o \in outs : o.mutant_id = mutant_id
  THEN CHOOSE o \in outs : o.mutant_id = mutant_id
  ELSE None

\* an add_outcome that inserts a first row but never updates an existing one
add_outcome_insert_only(outs, outcome) ==
  IF \E o \in outs : o.mutant_id = outcome.mutant_id THEN outs
  ELSE outs \cup {outcome}

\* an add_outcome whose UPDATE sets the status and the time but leaves the
\* output and the duration of the earlier run
add_outcome_stale_output(outs, outcome) ==
  IF \E o \in outs : o.mutant_id = outcome.mutant_id
  THEN {IF o.mutant_id = outcome.mutant_id
        THEN [o EXCEPT !.status = outcome.status, !.time = outcome.time]
        ELSE o : o \in outs}
  ELSE outs \cup {outcome}

\* an add_outcome that inserts a row at every call
add_outcome_always_insert(outs, outcome) == outs \cup {outcome}

\* SqlStore::add_outcome: UPDATE the row of the mutant if there is one,
\* INSERT otherwise
add_outcome(outs, outcome) ==
  IF \E o \in outs : o.mutant_id = outcome.mutant_id
  THEN {IF o.mutant_id = outcome.mutant_id THEN outcome ELSE o : o \in outs}
  ELSE outs \cup {outcome}

\* ids of a set in ascending order
RECURSIVE ascending(_)
ascending(S) ==
  IF S = {} THEN << >>
  ELSE LET lo == CHOOSE x \in S : \A y \in S : x <= y
       IN <<lo>> \o ascending(S \ {lo})

\* SqlStore::get_mutants_without_outcomes: LEFT JOIN ... WHERE o.mutant_id IS NULL
get_mutants_without_outcomes(outs) ==
  ascending({id \in MutantIds : ~\E o \in outs : o.mutant_id = id})

\* SqlStore::get_mutants_to_test: untested mutants, then the Timeout ones
get_mutants_to_test(outs) ==
  get_mutants_without_outcomes(outs) \o
  ascending({id \in MutantIds : \E o \in outs : o.mutant_id = id /\ o.status = "Timeout"})

(***************************************************************************)
(* Runner helpers                                                          *)
(***************************************************************************)
\* a skip condition that looks at the whole target instead of the line
should_skip_any_line(outs, m) ==
  \E id \in MutantIds :
    LET other == get_mutant(id) IN
      /\ other.id # m.id
      /\ other.target_id = m.target_id
      /\ \E o \in outs : o.mutant_id = other.id /\ o.status = "Uncaught"
      /\ severity_rank(get_severity_by_slug(other.mutation_slug))
           > severity_rank(get_severity_by_slug(m.mutation_slug))

\* severity-skip condition of TestRunner::test_mutant: another mutant of the
\* same target and line has an Uncaught outcome and a higher severity
should_skip(outs, m) ==
  \E id \in MutantIds :
    LET other == get_mutant(id) IN
      /\ other.id # m.id
      /\ other.target_id = m.target_id
      /\ other.line_offset = m.line_offset
      /\ \E o \in outs : o.mutant_id = other.id /\ o.status = "Uncaught"
      /\ severity_rank(get_severity_by_slug(other.mutation_slug))
           > severity_rank(get_severity_by_slug(m.mutation_slug))

\* how a test command can end
Results == {"exit_zero", "exit_nonzero", "killed", "spawn_failed"}

\* classification of a finished test command in TestRunner::test_mutant
classify(result) ==
  CASE result = "exit_zero" -> "Uncaught"
    [] result = "exit_nonzero" -> "TestFail"
    [] result = "killed" -> "Timeout"
    [] OTHER -> None

(***************************************************************************)
(* Commands: arguments, grouping, exit code                                *)
(***************************************************************************)
\* id lists the `test` command can be given: distinct ids, known to the
\* catalog or not (MaxMutants + 1 is an id without a row)
IdLists ==
  UNION { {s \in [1..n -> 1..(MaxMutants + 1)] :
             \A i, j \in 1..n : i # j => s[i] # s[j]} : n \in 0..MaxIds }

\* the text of --ids, or of the ids file: a sequence of characters
Digits == <<"0", "1", "2", "3", "4", "5", "6", "7", "8", "9">>
is_digit(ch) == \E d \in 1..10 : Digits[d] = ch
digit_value(ch) == (CHOOSE d \in 1..10 : Digits[d] = ch) - 1
is_separator(ch) == ch \in {",", " "}

\* str::split on whitespace and commas: the pieces between separators
RECURSIVE split(_)
split(input) ==
  IF \A i \in 1..Len(input) : ~is_separator(input[i])
  THEN <<input>>
  ELSE LET i == CHOOSE i \in 1..Len(input) :
                  /\ is_separator(input[i])
                  /\ \A j \in 1..(i - 1) : ~is_separator(input[j])
       IN <<SubSeq(input, 1, i - 1)>> \o split(SubSeq(input, i + 1, Len(input)))

RECURSIVE digits_value(_)
digits_value(token) ==
  IF token = << >> THEN 0
  ELSE 10 * digits_value(SubSeq(token, 1, Len(token) - 1)) + digit_value(token[Len(token)])

\* a parse that stops at the first character that is not a digit
parse_i64_prefix(token) ==
  IF token = << >> \/ ~is_digit(token[1]) THEN {}
  ELSE LET n == CHOOSE n \in 1..Len(token) :
                  /\ \A i \in 1..n : is_digit(token[i])
                  /\ n = Len(token) \/ ~is_digit(token[n + 1])
       IN {digits_value(SubSeq(token, 1, n))}

\* str::parse::<i64>: an optional sign and one or more digits, else an error
parse_i64(token) ==
  LET signed == token # << >> /\ token[1] \in {"+", "-"}
      body == IF signed THEN Tail(token) ELSE token
  IN IF body = << >> \/ \E i \in 1..Len(body) : ~is_digit(body[i])
     THEN {}
     ELSE {IF signed /\ token[1] = "-" THEN 0 - digits_value(body) ELSE digits_value(body)}

\* the parsing loop of read_mutant_ids: empty pieces are passed over, pieces
\* that are not integers are passed over with a warning, the rest are the ids
RECURSIVE parse_tokens(_)
parse_tokens(tokens) ==
  IF tokens = << >> THEN << >>
  ELSE LET id == parse_i64(Head(tokens))
       IN (IF Head(tokens) = << >> \/ id = {} THEN << >> ELSE <<CHOOSE x \in id : TRUE>>)
            \o parse_tokens(Tail(tokens))

read_mutant_ids(input) == parse_tokens(split(input))

\* i64::to_string of a catalog id (one digit at these sizes)
to_string(id) == <<Digits[id + 1]>>

\* Vec<String>::join(",")
RECURSIVE join(_)
join(ids) ==
  IF ids = << >> THEN << >>
  ELSE IF Len(ids) = 1 THEN to_string(ids[1])
  ELSE to_string(ids[1]) \o <<",">> \o join(Tail(ids))

\* command lines: `test --ids ...` and `run [--comprehensive]`
ArgsSet ==
  {[command |-> "test", ids |-> join(s), comprehensive |-> FALSE] : s \in IdLists}
  \cup {[command |-> "run", ids |-> << >>, comprehensive |-> b] : b \in BOOLEAN}

\* outcome rows left in the catalog by earlier runs (time 0 = before this run)
InitialOutcomes ==
  { {},
    {[mutant_id |-> 1, status |-> "Uncaught", time |-> 0]},
    {[mutant_id |-> 1, status |-> "Timeout", time |-> 0]},
    {[mutant_id |-> 2, status |-> "Uncaught", time |-> 0]},
    {[mutant_id |-> 3, status |-> "TestFail", time |-> 0]} }

\* the (command, timeout) key an id is grouped under by execute_test
group_key(c, id) ==
  resolve_test_for_path(c, get_target(get_mutant(id).target_id).path, c.cli_cmd, c.cli_timeout)

\* ids that reach a group: the mutant and its target exist and a command resolves
groupable(c, id) == id \in MutantIds /\ group_key(c, id)[1] # None

\* a grouping loop that puts every id under the key of the first one
group_mutants_one_group(c, ids) ==
  LET kept == SelectSeq(ids, LAMBDA id : groupable(c, id))
  IN IF kept = << >> THEN << >>
     ELSE [k \in {group_key(c, kept[1])} |-> kept]

\* a grouping loop that gives up at the first id without a row
group_mutants_until_error(c, ids) ==
  LET stop == IF \E i \in 1..Len(ids) : ids[i] \notin MutantIds
              THEN (CHOOSE i \in 1..Len(ids) :
                      /\ ids[i] \notin MutantIds
                      /\ \A j \in 1..(i - 1) : ids[j] \in MutantIds) - 1
              ELSE Len(ids)
      kept == SubSeq(ids, 1, stop)
      keys == {group_key(c, kept[i]) : i \in {i \in 1..Len(kept) : groupable(c, kept[i])}}
  IN [k \in keys |-> SelectSeq(kept, LAMBDA id : groupable(c, id) /\ group_key(c, id) = k)]

\* the grouping loop of execute_test: HashMap (cmd, timeout) -> ids in list order
group_mutants(c, ids) ==
  LET keys == {group_key(c, ids[i]) : i \in {i \in 1..Len(ids) : groupable(c, ids[i])}}
  IN [k \in keys |-> SelectSeq(ids, LAMBDA id : groupable(c, id) /\ group_key(c, id) = k)]

\* an exit code that ignores the flag
exit_code_always_zero(have_summary, flag) == 0

\* run_main, Commands::Run: 2 if a summary came back and the flag is down
exit_code_run(have_summary, flag) == IF have_summary /\ ~flag THEN 2 ELSE 0

\* a baseline error that is logged and ignored
baseline_continue(ok) == "mutant_loop"

\* execute_test on the result of new_with_baseline: Err(e) => return Err
baseline_next(ok) == IF ok THEN "mutant_loop" ELSE "failed"

\* a mutant poll that ignores the flag
poll_ignored(flag) == TRUE

\* running.load(Ordering::SeqCst) at the head of the mutant loop
poll_mutant(flag) == flag

\* a runner that applies the skip heuristic whatever the mode
skip_enabled_always(comprehensive) == TRUE

\* TestRunner::test_mutant: the heuristic is off in comprehensive mode
skip_enabled(comprehensive) == ~comprehensive

(***************************************************************************)
(* State                                                                   *)
(***************************************************************************)
VARIABLES
  args,         \* the command line
  cfg,          \* the configuration
  outcomes,     \* rows of the `outcomes` table
  initial,      \* the outcomes table when the command started
  disk,         \* path -> content of the file on disk
  running,      \* the shared AtomicBool, TRUE until Ctrl-C
  pc,           \* position of the command
  all_groups,   \* the groups built by the grouping loop
  groups,       \* groups not yet iterated
  group,        \* key of the group being run
  group_ids,    \* ids of the group not yet processed
  cur,          \* id of the mutant being tested (0: none)
  result,       \* how the last test command ended
  exit_code,    \* process exit code (None while running)
  injected,     \* ids whose mutated text was written to disk in this run
  spawns,       \* number of child processes spawned in this run
  passed,       \* keys of the groups whose baseline passed
  failed_group, \* keys of the groups whose baseline failed
  stopped,      \* a poll saw the flag down and broke a loop
  late_work     \* baselines spawned and mutants injected while the flag was down

vars == <<args, cfg, outcomes, initial, disk, running, pc, all_groups, groups, group,
          group_ids, cur, result, exit_code, injected, spawns, passed, failed_group,
          stopped, late_work>>

\* state of the other parts of the program, which the commands leave alone
VARIABLES
  targets,      \* rows of the `targets` table
  mutants,      \* rows of the `mutants` table
  last,         \* the last store call: name, arguments, rows found, return value
  latest,       \* per mutant id, the row handed to the most recent add_outcome
  path,         \* the target path a test command is resolved for
  resolved,     \* the (command, timeout) pair resolved for it
  tree,         \* the syntax tree of a target's source text
  emitted,      \* the mutants a pattern primitive emitted for it
  mutated       \* the text after Target::mutate

store_vars == <<targets, mutants, last, latest>>
config_vars == <<path, resolved>>
engine_vars == <<tree, emitted, mutated>>

\* state of a rulebook's dispatch loop, of the report writer and of the
\* store calls in flight on the shared connection pool
VARIABLES
  language,     \* the rulebook apply_all_mutations runs for
  position,     \* 0 before parsing, then the index of the descriptor in the loop
  dispatched,   \* slugs whose match arm has run
  panicked,     \* the unknown-slug arm was reached
  severity,     \* the last get_severity_by_slug call: slug and answer
  report,       \* the SARIF document execute_results printed
  calls,        \* per store call in flight: its position and what its lookup saw
  partials      \* the Vec<PartialMutant> a primitive returned, in push order

rulebook_vars == <<language, position, dispatched, panicked, severity>>
later_vars == <<rulebook_vars, report, calls, partials>>
outside_runner == <<store_vars, config_vars, engine_vars, later_vars>>

\* the store, the resolver and the engine at rest
store_idle == targets = {} /\ mutants = {} /\ last = None /\ latest = {}
config_idle == path = None /\ resolved = None
engine_idle == tree = None /\ emitted = {} /\ mutated = {}
rulebook_idle ==
  /\ language = None /\ position = 0 /\ dispatched = {} /\ panicked = FALSE
  /\ severity = None
later_idle == rulebook_idle /\ report = None /\ calls = None /\ partials = << >>

NoGroup == <<None, None>>

Init ==
  /\ args \in ArgsSet
  /\ cfg \in Configs
  /\ outcomes \in InitialOutcomes
  /\ initial = outcomes
  /\ disk = [p \in {TargetPath(t) : t \in TargetIds} |->
               TargetText(CHOOSE t \in TargetIds : TargetPath(t) = p)]
  /\ running = TRUE
  /\ pc = "start"
  /\ all_groups = << >>
  /\ groups = << >>
  /\ group = NoGroup
  /\ group_ids = << >>
  /\ cur = 0
  /\ result = None
  /\ exit_code = None
  /\ injected = {}
  /\ spawns = 0
  /\ passed = {}
  /\ failed_group = {}
  /\ stopped = FALSE
  /\ late_work = 0
  /\ store_idle /\ config_idle /\ engine_idle /\ later_idle

\* restriction of a function to a subset of its domain
restrict(f, S) == [x \in S |-> f[x]]

(***************************************************************************)
(* Actions                                                                 *)
(***************************************************************************)
\* ctrlc::set_handler closure in run_main
ctrlc_handler ==
  /\ running
  /\ pc # "done"
  /\ running' = FALSE
  /\ UNCHANGED outside_runner
  /\ UNCHANGED <<args, cfg, outcomes, initial, disk, pc, all_groups, groups, group,
                 group_ids, cur, result, exit_code, injected, spawns, passed,
                 failed_group, stopped, late_work>>

\* execute_test up to the group loop: read ids, reject an empty list, group
execute_test ==
  /\ pc = "start"
  /\ args.command = "test"
  /\ IF read_mutant_ids(args.ids) = << >>
     THEN /\ pc' = "failed"
          /\ UNCHANGED <<all_groups, groups>>
     ELSE /\ all_groups' = group_mutants(cfg, read_mutant_ids(args.ids))
          /\ groups' = all_groups'
          /\ pc' = "group_loop"
  /\ UNCHANGED outside_runner
  /\ UNCHANGED <<args, cfg, outcomes, initial, disk, running, group, group_ids, cur,
                 result, exit_code, injected, spawns, passed, failed_group, stopped,
                 late_work>>

\* execute_run up to the group loop: select the mutants to test and group them
execute_run ==
  /\ pc = "start"
  /\ args.command = "run"
  /\ all_groups' = group_mutants(cfg, get_mutants_to_test(outcomes))
  /\ groups' = all_groups'
  /\ pc' = "group_loop"
  /\ UNCHANGED outside_runner
  /\ UNCHANGED <<args, cfg, outcomes, initial, disk, running, group, group_ids, cur,
                 result, exit_code, injected, spawns, passed, failed_group, stopped,
                 late_work>>

\* head of `for ((cmd, timeout), group_ids) in groups`: poll, then take a group
group_loop ==
  /\ pc = "group_loop"
  /\ IF DOMAIN groups = {}
     THEN /\ pc' = "finish"
          /\ UNCHANGED <<groups, group, group_ids, stopped>>
     ELSE IF ~running
     THEN /\ pc' = "finish"
          /\ stopped' = TRUE
          /\ UNCHANGED <<groups, group, group_ids>>
     ELSE \E k \in DOMAIN groups :
            /\ group' = k
            /\ group_ids' = groups[k]
            /\ groups' = restrict(groups, DOMAIN groups \ {k})
            /\ pc' = "new_with_baseline"
            /\ UNCHANGED stopped
  /\ UNCHANGED outside_runner
  /\ UNCHANGED <<args, cfg, outcomes, initial, disk, running, all_groups, cur, result,
                 exit_code, injected, spawns, passed, failed_group, late_work>>

\* TestRunner::new_with_baseline: poll the flag before awaiting the baseline
new_with_baseline ==
  /\ pc = "new_with_baseline"
  /\ pc' = IF running THEN "baseline" ELSE "mutant_loop"
  /\ UNCHANGED outside_runner
  /\ UNCHANGED <<args, cfg, outcomes, initial, disk, running, all_groups, groups, group,
                 group_ids, cur, result, exit_code, injected, spawns, passed,
                 failed_group, stopped, late_work>>

\* the baseline run of the group's command and what the command does with it
baseline ==
  /\ pc = "baseline"
  /\ spawns' = spawns + 1
  /\ late_work' = late_work + (IF running THEN 0 ELSE 1)
  /\ \E ok \in BOOLEAN :
       /\ pc' = baseline_next(ok)
       /\ passed' = IF ok THEN passed \cup {group} ELSE passed
       /\ failed_group' = IF ok THEN failed_group ELSE failed_group \cup {group}
  /\ UNCHANGED outside_runner
  /\ UNCHANGED <<args, cfg, outcomes, initial, disk, running, all_groups, groups, group,
                 group_ids, cur, result, exit_code, injected, stopped>>

\* head of `for id in group_ids`: poll, then fetch the mutant and its target
mutant_loop ==
  /\ pc = "mutant_loop"
  /\ IF group_ids = << >>
     THEN /\ pc' = "group_loop"
          /\ UNCHANGED <<group_ids, cur, stopped>>
     ELSE IF ~poll_mutant(running)
     THEN /\ pc' = "group_loop"
          /\ stopped' = TRUE
          /\ UNCHANGED <<group_ids, cur>>
     ELSE /\ cur' = Head(group_ids)
          /\ group_ids' = Tail(group_ids)
          /\ pc' = "test_mutant"
          /\ UNCHANGED stopped
  /\ UNCHANGED outside_runner
  /\ UNCHANGED <<args, cfg, outcomes, initial, disk, running, all_groups, groups, group,
                 result, exit_code, injected, spawns, passed, failed_group, late_work>>

\* TestRunner::test_mutant, first part: severity skip, else inject on disk
test_mutant ==
  /\ pc = "test_mutant"
  /\ LET m == get_mutant(cur)
         target == get_target(m.target_id)
     IN IF skip_enabled(args.comprehensive) /\ should_skip(outcomes, m)
        THEN /\ outcomes' = add_outcome(outcomes,
                              [mutant_id |-> cur, status |-> "Skipped", time |-> 1])
             /\ pc' = "mutant_loop"
             /\ UNCHANGED <<disk, injected, late_work>>
        ELSE /\ disk' = [disk EXCEPT ![target.path] = mutate(target.id, m)]
             /\ injected' = injected \cup {cur}
             /\ late_work' = late_work + (IF running THEN 0 ELSE 1)
             /\ pc' = "execute"
             /\ UNCHANGED outcomes
  /\ UNCHANGED outside_runner
  /\ UNCHANGED <<args, cfg, initial, running, all_groups, groups, group, group_ids, cur,
                 result, exit_code, spawns, passed, failed_group, stopped>>

\* TestRunner::test_mutant, second part: spawn the test command and await it
execute ==
  /\ pc = "execute"
  /\ spawns' = spawns + 1
  /\ \E r \in Results :
       /\ r = "killed" => or(group[2], cfg.timeout) # None
       /\ result' = r
  /\ pc' = "restore"
  /\ UNCHANGED outside_runner
  /\ UNCHANGED <<args, cfg, outcomes, initial, disk, running, all_groups, groups, group,
                 group_ids, cur, exit_code, injected, passed, failed_group, stopped,
                 late_work>>

\* TestRunner::test_mutant, last part: restore the file, persist the outcome
restore_and_persist ==
  /\ pc = "restore"
  /\ disk' = restore(disk, get_mutant(cur).target_id)
  /\ outcomes' = IF classify(result) # None
                 THEN add_outcome(outcomes,
                        [mutant_id |-> cur, status |-> classify(result), time |-> 1])
                 ELSE outcomes
  /\ pc' = "mutant_loop"
  /\ UNCHANGED outside_runner
  /\ UNCHANGED <<args, cfg, initial, running, all_groups, groups, group, group_ids, cur,
                 result, exit_code, injected, spawns, passed, failed_group, stopped,
                 late_work>>

\* run_main after the command returned Ok: the exit code
finish ==
  /\ pc = "finish"
  /\ exit_code' = IF args.command = "run" THEN exit_code_run(TRUE, running) ELSE 0
  /\ pc' = "done"
  /\ UNCHANGED outside_runner
  /\ UNCHANGED <<args, cfg, outcomes, initial, disk, running, all_groups, groups, group,
                 group_ids, cur, result, injected, spawns, passed, failed_group, stopped,
                 late_work>>

\* main after run_main returned Err: the process exits with code 1
main_err ==
  /\ pc = "failed"
  /\ exit_code' = 1
  /\ pc' = "done"
  /\ UNCHANGED outside_runner
  /\ UNCHANGED <<args, cfg, outcomes, initial, disk, running, all_groups, groups, group,
                 group_ids, cur, result, injected, spawns, passed, failed_group, stopped,
                 late_work>>

Next ==
  \/ ctrlc_handler
  \/ execute_test
  \/ execute_run
  \/ group_loop
  \/ new_with_baseline
  \/ baseline
  \/ mutant_loop
  \/ test_mutant
  \/ execute
  \/ restore_and_persist
  \/ finish
  \/ main_err

Spec == Init /\ [][Next]_vars

(***************************************************************************)
(* Properties                                                              *)
(***************************************************************************)
\* targets whose file on disk differs from the text stored in the catalog
dirty == {t \in TargetIds : disk[TargetPath(t)] # TargetText(t)}

\* ids of the group with key k, as built by the grouping loop
ids_of(k) == {all_groups[k][i] : i \in 1..Len(all_groups[k])}

\* C1: when a run or test command has ended (completed, cancelled, aborted
\* by a baseline failure, after per-mutant errors or timeouts) every target
\* file on disk holds the original text stored in the catalog.
C1_RestorationGuarantee ==
  pc = "done" => \A t \in TargetIds : disk[TargetPath(t)] = TargetText(t)

\* a command that injected mutants and was then cancelled has ended
C1_Witness == pc = "done" /\ injected # {} /\ stopped

\* C2: at most one mutant is applied on disk at any moment: at most one file
\* differs from its original, it holds the current mutant's text while that
\* mutant's test runs, and an injection only starts on a clean tree.
C2_OneMutantOnDisk ==
  /\ Cardinality(dirty) <= 1
  /\ pc \notin {"execute", "restore"} => dirty = {}
  /\ \A t \in dirty :
       /\ get_mutant(cur).target_id = t
       /\ disk[TargetPath(t)] = mutate(t, get_mutant(cur))

\* a second mutant is on disk after an earlier one was injected and restored
C2_Witness == pc = "execute" /\ Cardinality(injected) >= 2 /\ dirty # {}

\* C3: when the baseline of a group exits non-zero, no mutant of the group is
\* injected or executed or given an outcome: the outcome rows of its mutants
\* are those the catalog held when the command started.
C3_BaselineFailureAbandonsGroup ==
  \A k \in failed_group :
    /\ pc \in {"failed", "done"}
    /\ \A id \in ids_of(k) :
         /\ id \notin injected
         /\ {o \in outcomes : o.mutant_id = id} = {o \in initial : o.mutant_id = id}

\* a second group's baseline failed after the first group was tested
C3_Witness == pc = "done" /\ failed_group # {} /\ injected # {}

\* severity of a slug as listed in the mutation table
listed_severity(slug) ==
  {Mutations[i].severity : i \in {i \in 1..Len(Mutations) : Mutations[i].slug = slug}}

\* the catalog holds an Uncaught outcome for another mutant of the same target
\* and line whose slug is listed with a strictly higher severity
higher_uncaught(id) ==
  \E other \in MutantIds \ {id} :
    /\ MutantRows[other].target_id = MutantRows[id].target_id
    /\ MutantRows[other].line_offset = MutantRows[id].line_offset
    /\ \E o \in outcomes : o.mutant_id = other /\ o.status = "Uncaught"
    /\ \/ /\ "High" \in listed_severity(MutantRows[other].mutation_slug)
          /\ listed_severity(MutantRows[id].mutation_slug) \subseteq {"Medium", "Low"}
       \/ /\ "Medium" \in listed_severity(MutantRows[other].mutation_slug)
          /\ listed_severity(MutantRows[id].mutation_slug) \subseteq {"Low"}

\* C4: with comprehensive mode off, a mutant about to be tested while a
\* higher-severity mutant of the same target and line is Uncaught gets a
\* Skipped outcome; it is not written to disk and no test command is spawned.
C4_SeveritySkip ==
  [][(pc = "test_mutant" /\ pc' # pc /\ ~args.comprehensive /\ higher_uncaught(cur))
       => /\ {o \in outcomes' : o.mutant_id = cur}
               = {[mutant_id |-> cur, status |-> "Skipped", time |-> 1]}
          /\ disk' = disk
          /\ injected' = injected
          /\ spawns' = spawns
          /\ pc' = "mutant_loop"]_vars

\* a mutant was skipped in this run and never touched the disk
C4_Witness ==
  \E o \in outcomes :
    /\ o.status = "Skipped" /\ o.time = 1
    /\ o.mutant_id \notin injected
    /\ higher_uncaught(o.mutant_id)

\* C5: in comprehensive mode every mutant the runner processes is injected
\* and executed and no Skipped outcome is recorded, whatever Uncaught outcomes
\* exist on the same line.
C5_ComprehensiveTestsAll ==
  [][(pc = "test_mutant" /\ pc' # pc /\ args.comprehensive)
       => /\ pc' = "execute"
          /\ cur \in injected'
          /\ disk'[TargetPath(MutantRows[cur].target_id)] # TargetText(MutantRows[cur].target_id)
          /\ \A o \in outcomes' : o.status # "Skipped"]_vars

\* in comprehensive mode a mutant is on disk although a higher-severity
\* mutant of its line is Uncaught
C5_Witness ==
  args.comprehensive /\ pc = "execute" /\ cur \in injected /\ higher_uncaught(cur)

\* C6 as stated: once the flag is down no baseline is spawned and no mutant
\* is injected.
C6_NoWorkAfterFlip == late_work = 0

\* C6 amended: a poll that reads the flag down starts nothing (no group, no
\* baseline, no mutant), so after the flip at most the one step whose poll
\* came before the flip still starts.
C6_PollsStopNewWork ==
  /\ [][~running => /\ (pc = "group_loop" => pc' # "new_with_baseline")
                    /\ (pc = "new_with_baseline" => pc' # "baseline")
                    /\ (pc = "mutant_loop" => pc' # "test_mutant")]_vars
  /\ [](late_work <= 1)

\* a command was cancelled after one late step
C6_Witness == pc = "done" /\ stopped /\ late_work = 1

\* the campaign processed every group and every mutant
completed == ~stopped /\ failed_group = {} /\ passed # {} /\ exit_code # 1

C8_StatusFromResult ==
  [][(pc = "restore" /\ pc' # pc /\ result # "spawn_failed")
       => {o \in outcomes' : o.mutant_id = cur}
            = {[mutant_id |-> cur,
                status |-> CASE result = "exit_zero" -> "Uncaught"
                             [] result = "exit_nonzero" -> "TestFail"
                             [] result = "killed" -> "Timeout",
                time |-> 1]}]_vars

\* a retested mutant whose earlier outcome was replaced by Timeout
C8_Witness ==
  /\ pc = "mutant_loop" /\ result = "killed"
  /\ \E o \in initial : o.mutant_id = cur
  /\ \E o \in outcomes : o.mutant_id = cur /\ o.status = "Timeout" /\ o.time = 1

\* C9: a failed spawn of the test command records a BuildFail outcome for the
\* mutant (and the batch goes on).
C9_SpawnFailureRecordsBuildFail ==
  [][(pc = "restore" /\ pc' # pc /\ result = "spawn_failed")
       => /\ \E o \in outcomes' :
               o.mutant_id = cur /\ o.status = "BuildFail" /\ o.time = 1
          /\ pc' = "mutant_loop"]_vars

\* C10: when a command ends without cancellation, every mutant of every
\* group whose baseline passed has an outcome recorded in this run.
C10_EveryMutantGetsOutcome ==
  (pc = "done" /\ ~stopped)
    => \A k \in passed : \A id \in ids_of(k) :
         \E o \in outcomes : o.mutant_id = id /\ o.time = 1

(***************************************************************************)
(* The store: the catalog tables and the calls that change them            *)
(***************************************************************************)
\* rows a `mutants` table holds at most
MaxStoreMutants == 2
\* largest `time` stamp handed to add_outcome
MaxTime == 2
\* largest row id the tables hand out
MaxRowId == 3

\* content hashes and paths of the files handed to add_target
FileHashes == {"h1", "h2"}
Paths == {"src/a.rs", "src/b.rs"}

\* last_insert_rowid of an INSERT into a table with an integer primary key
last_insert_rowid(rows) ==
  IF rows = {} THEN 1
  ELSE (CHOOSE i \in {r.id : r \in rows} : \A r \in rows : r.id <= i) + 1

\* an add_target that inserts a second row for a file that moved
add_target_duplicate(ts, p, file_hash) ==
  IF \E r \in ts : r.file_hash = file_hash /\ r.path = p
  THEN [targets |-> ts,
        id |-> (CHOOSE r \in ts : r.file_hash = file_hash /\ r.path = p).id]
  ELSE [targets |-> ts \cup {[id |-> last_insert_rowid(ts), path |-> p,
                              file_hash |-> file_hash]},
        id |-> last_insert_rowid(ts)]

\* an add_target that keeps one row per path: a new hash overwrites the row
\* stored under the same path
add_target_one_per_path(ts, p, file_hash) ==
  IF \E r \in ts : r.file_hash = file_hash
  THEN LET record == CHOOSE r \in ts : r.file_hash = file_hash IN
         [targets |-> {IF r.id = record.id THEN [r EXCEPT !.path = p] ELSE r : r \in ts},
          id |-> record.id]
  ELSE IF \E r \in ts : r.path = p
  THEN LET record == CHOOSE r \in ts : r.path = p IN
         [targets |-> {IF r.id = record.id THEN [r EXCEPT !.file_hash = file_hash] ELSE r
                         : r \in ts},
          id |-> record.id]
  ELSE [targets |-> ts \cup {[id |-> last_insert_rowid(ts), path |-> p,
                              file_hash |-> file_hash]},
        id |-> last_insert_rowid(ts)]

\* SqlStore::add_target: the row with this file_hash is returned as it is
\* when its path is the same, has its path updated when the path differs,
\* and a new row is inserted when the hash is new; the id is returned
add_target(ts, p, file_hash) ==
  IF \E r \in ts : r.file_hash = file_hash
  THEN LET record == CHOOSE r \in ts : r.file_hash = file_hash IN
         IF record.path = p
         THEN [targets |-> ts, id |-> record.id]
         ELSE [targets |-> {IF r.id = record.id THEN [r EXCEPT !.path = p] ELSE r
                              : r \in ts},
               id |-> record.id]
  ELSE [targets |-> ts \cup {[id |-> last_insert_rowid(ts), path |-> p,
                              file_hash |-> file_hash]},
        id |-> last_insert_rowid(ts)]

\* SqlStore::get_target: the rows with this id (none: Error::NotFound)
get_target_row(ts, id) == {r \in ts : r.id = id}

\* the columns add_mutant looks a mutant up by
unique_tuple(m) ==
  <<m.target_id, m.byte_offset, m.old_text, m.new_text, m.mutation_slug>>

\* an add_mutant that inserts without looking the tuple up
add_mutant_always_insert(ms, m) ==
  [mutants |-> ms \cup {[m EXCEPT !.id = last_insert_rowid(ms)]},
   id |-> {last_insert_rowid(ms)}]

\* SqlStore::add_mutant: Ok(None) (the empty set) when a row with the same
\* tuple exists, else INSERT and Ok(Some(id)) (the singleton of the id)
add_mutant(ms, m) ==
  IF \E r \in ms : unique_tuple(r) = unique_tuple(m)
  THEN [mutants |-> ms, id |-> {}]
  ELSE [mutants |-> ms \cup {[m EXCEPT !.id = last_insert_rowid(ms)]},
        id |-> {last_insert_rowid(ms)}]

\* calculate_line_offset for the two offsets mutants are generated at
line_offset_of(byte_offset) == IF byte_offset = 0 THEN 0 ELSE 1

\* the mutants execute_mutate hands to add_mutant for a stored target
GeneratedMutants(ts) ==
  {[id |-> 0, target_id |-> t.id, byte_offset |-> b,
    line_offset |-> line_offset_of(b), old_text |-> <<"f">>,
    new_text |-> << >>, mutation_slug |-> IF b = 0 THEN "ER" ELSE "CR"]
     : t \in ts, b \in {0, 3}}

\* the statuses of an outcome
OutcomeStatuses == {"Uncaught", "TestFail", "Timeout", "Skipped", "BuildFail"}

\* the rows the runner hands to add_outcome for a mutant: any status, and
\* an output and a duration that differ from one time stamp to the next
OutcomeRows(mutant_id) ==
  {[mutant_id |-> mutant_id, status |-> st,
    output |-> IF tm = 1 THEN "" ELSE "log", time |-> tm,
    duration_ms |-> 7 * (tm - 1)]
     : st \in OutcomeStatuses, tm \in 1..MaxTime}

\* a remove_target that deletes no row
remove_target_noop(ts, id) == ts

\* SqlStore::remove_target: DELETE FROM targets WHERE id = ?
remove_target(ts, id) == {r \in ts : r.id # id}

\* mutants.target_id REFERENCES targets(id) ON DELETE CASCADE
cascade_mutants(ts, ms) == {m \in ms : \E t \in ts : t.id = m.target_id}

\* outcomes.mutant_id REFERENCES mutants(id) ON DELETE CASCADE
cascade_outcomes(ms, outs) == {o \in outs : \E m \in ms : m.id = o.mutant_id}

\* a selection that also retries the Uncaught mutants
select_mutants_to_test_uncaught(ms, outs) ==
  ascending({m.id : m \in {r \in ms : ~\E o \in outs : o.mutant_id = r.id}}) \o
  ascending({m.id : m \in {r \in ms : \E o \in outs :
                             o.mutant_id = r.id
                             /\ o.status \in {"Timeout", "Uncaught"}}})

\* SqlStore::get_mutants_to_test over the tables: the mutants without an
\* outcome (get_mutants_without_outcomes, ORDER BY id), then the mutants
\* whose outcome has status 'Timeout' (ORDER BY id)
select_mutants_to_test(ms, outs) ==
  ascending({m.id : m \in {r \in ms : ~\E o \in outs : o.mutant_id = r.id}}) \o
  ascending({m.id : m \in {r \in ms : \E o \in outs :
                             o.mutant_id = r.id /\ o.status = "Timeout"}})

\* the commands at rest while the store is exercised on its own
runner_idle ==
  /\ args = None /\ initial = {} /\ disk = None /\ running = TRUE
  /\ pc = None /\ all_groups = << >> /\ groups = << >> /\ group = NoGroup
  /\ group_ids = << >> /\ cur = 0 /\ result = None /\ exit_code = None
  /\ injected = {} /\ spawns = 0 /\ passed = {} /\ failed_group = {}
  /\ stopped = FALSE /\ late_work = 0

runner_vars == <<args, initial, disk, running, pc, all_groups, groups, group,
                 group_ids, cur, result, exit_code, injected, spawns, passed,
                 failed_group, stopped, late_work>>

outside_store == <<cfg, runner_vars, config_vars, engine_vars, later_vars>>

\* an empty catalog
InitStore ==
  /\ targets = {} /\ mutants = {} /\ outcomes = {} /\ latest = {}
  /\ last = [op |-> "open", arg |-> None, was |-> {}, ret |-> {}]
  /\ cfg = None
  /\ runner_idle /\ config_idle /\ engine_idle /\ later_idle

\* execute_mutate storing a target file
call_add_target ==
  /\ \E h \in FileHashes, p \in Paths :
       LET r == add_target(targets, p, h) IN
         /\ r.id <= MaxRowId
         /\ targets' = r.targets
         /\ last' = [op |-> "add_target", arg |-> <<p, h>>,
                     was |-> {x \in targets : x.file_hash = h}, ret |-> {r.id}]
  /\ UNCHANGED <<mutants, outcomes, latest>>
  /\ UNCHANGED outside_store

\* execute_mutate storing a generated mutant of a stored target
call_add_mutant ==
  /\ \E m \in GeneratedMutants(targets) :
       LET r == add_mutant(mutants, m) IN
         /\ Cardinality(r.mutants) <= MaxStoreMutants
         /\ \A i \in r.id : i <= MaxRowId
         /\ mutants' = r.mutants
         /\ last' = [op |-> "add_mutant", arg |-> unique_tuple(m),
                     was |-> {x \in mutants : unique_tuple(x) = unique_tuple(m)},
                     ret |-> r.id]
  /\ UNCHANGED <<targets, outcomes, latest>>
  /\ UNCHANGED outside_store

\* the runner persisting an Uncaught outcome of a stored mutant
call_add_outcome_uncaught ==
  /\ \E m \in mutants :
       LET o == CHOOSE r \in OutcomeRows(m.id) : r.status = "Uncaught" /\ r.time = 1
       IN /\ outcomes' = add_outcome(outcomes, o)
          /\ latest' = {l \in latest : l.mutant_id # m.id} \cup {o}
          /\ last' = [op |-> "add_outcome", arg |-> m.id,
                      was |-> {x \in outcomes : x.mutant_id = m.id}, ret |-> {}]
  /\ UNCHANGED <<targets, mutants>>
  /\ UNCHANGED outside_store

\* the runner persisting the outcome of a stored mutant
call_add_outcome ==
  /\ \E m \in mutants : \E o \in OutcomeRows(m.id) :
       /\ outcomes' = add_outcome(outcomes, o)
       /\ latest' = {l \in latest : l.mutant_id # m.id} \cup {o}
       /\ last' = [op |-> "add_outcome", arg |-> m.id,
                   was |-> {x \in outcomes : x.mutant_id = m.id}, ret |-> {}]
  /\ UNCHANGED <<targets, mutants>>
  /\ UNCHANGED outside_store

\* the purge command removing a target; the schema cascades the delete
call_remove_target ==
  /\ \E t \in targets :
       /\ targets' = remove_target(targets, t.id)
       /\ last' = [op |-> "remove_target", arg |-> t.id,
                   was |-> {x \in mutants : x.target_id = t.id}, ret |-> {}]
  /\ mutants' = cascade_mutants(targets', mutants)
  /\ outcomes' = cascade_outcomes(mutants', outcomes)
  /\ latest' = {l \in latest : \E m \in mutants' : m.id = l.mutant_id}
  /\ UNCHANGED outside_store

\* the run command selecting the mutants of a campaign
call_get_mutants_to_test ==
  /\ last' = [op |-> "get_mutants_to_test", arg |-> None, was |-> outcomes,
              ret |-> select_mutants_to_test(mutants, outcomes)]
  /\ UNCHANGED <<targets, mutants, outcomes, latest>>
  /\ UNCHANGED outside_store

store_view == <<targets, mutants, outcomes, last, latest>>

\* the catalog as the mutate, run and purge commands build and prune it
NextStore ==
  \/ call_add_target
  \/ call_add_mutant
  \/ call_add_outcome_uncaught
  \/ call_remove_target

SpecStore == InitStore /\ [][NextStore]_store_view

\* a catalog of two targets with MaxStoreMutants mutants and no outcome
InitOutcomes ==
  /\ targets = {[id |-> 1, path |-> "src/a.rs", file_hash |-> "h1"],
                [id |-> 2, path |-> "src/b.rs", file_hash |-> "h2"]}
  /\ mutants = {[id |-> i, target_id |-> 1 + (i % 2), byte_offset |-> 0,
                 line_offset |-> 0, old_text |-> <<"f">>, new_text |-> << >>,
                 mutation_slug |-> IF i <= 2 THEN "ER" ELSE "CR"]
                  : i \in 1..MaxStoreMutants}
  /\ outcomes = {} /\ latest = {}
  /\ last = [op |-> "open", arg |-> None, was |-> {}, ret |-> {}]
  /\ cfg = None
  /\ runner_idle /\ config_idle /\ engine_idle /\ later_idle

\* successive campaigns over that catalog: select, test, persist, select again
NextOutcomes ==
  \/ call_add_outcome
  \/ call_get_mutants_to_test

SpecOutcomes == InitOutcomes /\ [][NextOutcomes]_store_view

(***************************************************************************)
(* Properties of the store                                                 *)
(***************************************************************************)
\* C11: add_target called with a file_hash that is stored under a different
\* path updates that row's path, returns the id of that row and adds no
\* row; get_target of that id then returns the new path.
C11_TargetRelocation ==
  [][\A h \in FileHashes, p \in Paths :
       (/\ last'.op = "add_target" /\ last'.arg = <<p, h>>
        /\ \E r \in targets : r.file_hash = h /\ r.path # p)
       => \E r \in targets :
            /\ r.file_hash = h
            /\ last'.ret = {r.id}
            /\ Cardinality(targets') = Cardinality(targets)
            /\ get_target_row(targets', r.id) = {[r EXCEPT !.path = p]}
            /\ \A x \in targets : x.id # r.id => x \in targets']_store_view

\* a stored file was added again from another path
C11_Witness ==
  /\ last.op = "add_target"
  /\ \E r \in last.was : r.path # last.arg[1]
  /\ \E r \in targets : r.id \in last.ret /\ r.path = last.arg[1]

\* C12: add_mutant of a tuple (target_id, byte_offset, old_text, new_text,
\* mutation_slug) that is stored returns None and leaves the mutant rows as
\* they are, and the tuple is unique among the mutant rows at all times.
C12_MutantIdempotence ==
  /\ [](\A a, b \in mutants : unique_tuple(a) = unique_tuple(b) => a = b)
  /\ [][(/\ last'.op = "add_mutant"
         /\ \E r \in mutants : unique_tuple(r) = last'.arg)
        => (last'.ret = {} /\ mutants' = mutants)]_store_view

\* a stored tuple was inserted again while the table held another row too
C12_Witness ==
  /\ last.op = "add_mutant" /\ last.was # {} /\ last.ret = {}
  /\ Cardinality(mutants) = 2

\* C13: there is at most one outcome row per mutant id, and it is the row
\* (status, output, time, duration) of the most recent add_outcome for it.
C13_OneOutcomePerMutant ==
  \A m \in mutants :
    /\ Cardinality({o \in outcomes : o.mutant_id = m.id}) <= 1
    /\ {o \in outcomes : o.mutant_id = m.id} = {l \in latest : l.mutant_id = m.id}

\* a mutant was retested and its row replaced by one that differs in every column
C13_Witness ==
  /\ last.op = "add_outcome"
  /\ \E old \in last.was : \E o \in outcomes :
       /\ o.mutant_id = last.arg /\ o.status # old.status /\ o.output # old.output
       /\ o.time # old.time /\ o.duration_ms # old.duration_ms

\* C14: a campaign selects exactly the mutants without an outcome and the
\* mutants whose outcome is Timeout, whatever the earlier campaigns recorded:
\* a mutant with a TestFail, Uncaught, Skipped or BuildFail outcome is never
\* selected.
C14_CampaignSelection ==
  [][last'.op = "get_mutants_to_test"
       => /\ {last'.ret[i] : i \in DOMAIN last'.ret}
               = {m.id : m \in {r \in mutants :
                    \A o \in outcomes : o.mutant_id = r.id => o.status = "Timeout"}}
          /\ \A o \in outcomes :
               o.status \in {"TestFail", "Uncaught", "Skipped", "BuildFail"}
                 => \A i \in DOMAIN last'.ret : last'.ret[i] # o.mutant_id]_store_view

\* a campaign that retried a Timeout mutant and left a terminal one alone
C14_Witness ==
  /\ last.op = "get_mutants_to_test"
  /\ \E o \in last.was : o.status = "Timeout"
       /\ \E i \in DOMAIN last.ret : last.ret[i] = o.mutant_id
  /\ \E o \in last.was : o.status = "Skipped"

\* C15: after remove_target(t) no mutant row references t, and no mutant
\* references a missing target and no outcome a missing mutant at any time.
C15_PurgeCascades ==
  /\ [](/\ \A m \in mutants : \E t \in targets : t.id = m.target_id
        /\ \A o \in outcomes : \E m \in mutants : m.id = o.mutant_id)
  /\ [][last'.op = "remove_target"
          => /\ \A m \in mutants' : m.target_id # last'.arg
             /\ \A t \in targets' : t.id # last'.arg]_store_view

\* a target that owned a tested mutant was removed while another target stays
C15_Witness ==
  /\ last.op = "remove_target"
  /\ \E m \in last.was : TRUE
  /\ targets # {} /\ mutants # {} /\ outcomes # {}

(***************************************************************************)
(* Resolution of the test command and of the deadline for a target path    *)
(***************************************************************************)
\* longest per_target list of a configuration
MaxRules == 2

\* the per_target rules a configuration can hold: a glob, and optionally a
\* command and a timeout
Rules ==
  {[glob |-> g, cmd |-> c, timeout |-> t]
     : g \in {"src/b.rs", "src/*.rs"}, c \in {None, "make b", "make all"},
       t \in {None, "10", "20"}}

\* lists of at most n rules
RECURSIVE RuleLists(_)
RuleLists(n) ==
  IF n = 0 THEN {<< >>}
  ELSE RuleLists(n - 1) \cup
       {Append(l, r) : l \in {x \in RuleLists(n - 1) : Len(x) = n - 1}, r \in Rules}

\* every combination of CLI overrides, global [test] section and rules
ResolveConfigs ==
  {[cli_cmd |-> cc, cli_timeout |-> ct, cmd |-> gc, timeout |-> gt, per_target |-> l]
     : cc \in {None, " ", "cli test"}, ct \in {None, "5"},
       gc \in {None, "make test"}, gt \in {None, "30"}, l \in RuleLists(MaxRules)}

\* the timeout execute_test hands to the runner of a group:
\* timeout.or(config().test.timeout)
deadline(c, key) == or(key[2], c.timeout)

InitResolve ==
  /\ cfg \in ResolveConfigs
  /\ path \in Paths
  /\ resolved = << >>
  /\ outcomes = {}
  /\ runner_idle /\ store_idle /\ engine_idle /\ later_idle

\* the grouping loop of execute_test for one mutant of the target at `path`,
\* and the deadline its group's runner is built with
resolve ==
  /\ resolved = << >>
  /\ LET key == resolve_test_for_path(cfg, path, cfg.cli_cmd, cfg.cli_timeout)
     IN resolved' = <<key[1], key[2], deadline(cfg, key)>>
  /\ UNCHANGED <<cfg, path, outcomes, runner_vars, store_vars, engine_vars, later_vars>>

NextResolve == resolve

resolve_view == <<cfg, path, resolved>>

SpecResolve == InitResolve /\ [][NextResolve]_resolve_view

\* indices of the rules whose glob matches the path
matching(c, p) == {i \in 1..Len(c.per_target) : glob_matches(c.per_target[i].glob, p)}

\* the least index of a non-empty set of indices
first(S) == CHOOSE i \in S : \A j \in S : i <= j

matching_with_cmd(c, p) == {i \in matching(c, p) : c.per_target[i].cmd # None}

C17_DeadlinePrecedence ==
  resolved # << >>
    => resolved[3] =
         IF cfg.cli_timeout # None THEN cfg.cli_timeout
         ELSE IF /\ matching_with_cmd(cfg, path) # {}
                 /\ cfg.per_target[first(matching_with_cmd(cfg, path))].timeout # None
              THEN cfg.per_target[first(matching_with_cmd(cfg, path))].timeout
              ELSE cfg.timeout

(***************************************************************************)
(* The mutation engine: pattern primitives over a syntax tree              *)
(***************************************************************************)
\* A parsed target is [text, nodes]: the text, one element per byte, and the
\* tree-sitter nodes in document order, each with its kind, byte span
\* [start_byte, end_byte), parent (0 for the root) and field name in the
\* parent ("" for none).

\* Node::is_named: anonymous nodes are the punctuation and keyword tokens
is_named(kind) ==
  kind \notin {"(", ")", ",", ";", "{", "}", "+", "-", "if", "while"}

\* a node_text that starts one byte late
node_text_shifted(T, i) ==
  SubSeq(T.text, T.nodes[i].start_byte + 2, T.nodes[i].end_byte)

\* node_text: &source[node.start_byte()..node.end_byte()]
node_text(T, i) == SubSeq(T.text, T.nodes[i].start_byte + 1, T.nodes[i].end_byte)

\* the chain node.parent(), parent.parent(), ...
RECURSIVE ancestors(_, _)
ancestors(T, i) ==
  IF T.nodes[i].parent = 0 THEN {}
  ELSE {T.nodes[i].parent} \cup ancestors(T, T.nodes[i].parent)

\* is_in_comment: the node or one of its ancestors is a comment
is_in_comment(T, i) ==
  \/ T.nodes[i].kind = "comment"
  \/ \E a \in ancestors(T, i) : T.nodes[a].kind = "comment"

\* a has_ancestor_with_kind that finds no ancestor
has_ancestor_with_kind_never(T, i, kinds) == FALSE

\* has_ancestor_with_kind
has_ancestor_with_kind(T, i, kinds) ==
  \E a \in ancestors(T, i) : T.nodes[a].kind \in kinds

\* is_punctuation_kind
is_punctuation_kind(kind) == kind \in {"(", ")", ","}

\* node.children(): the children of a node in document order
children(T, i) == SelectSeq([j \in DOMAIN T.nodes |-> j], LAMBDA j : T.nodes[j].parent = i)

\* node.child_by_field_name: the children with that field name
child_by_field_name(T, i, field) ==
  SelectSeq(children(T, i), LAMBDA j : T.nodes[j].field = field)

\* calculate_line_offset: newlines among the first byte_offset bytes
calculate_line_offset(source, byte_offset) ==
  Cardinality({k \in 1..byte_offset : source[k] = "\n"})

\* PartialMutant for the byte span [start, end_) turned into a Mutant
\* (Mutant::from_partial adds the slug)
emit(T, start, end_, new_text, slug) ==
  [byte_offset |-> start,
   line_offset |-> calculate_line_offset(T.text, start),
   old_text |-> SubSeq(T.text, start + 1, end_),
   new_text |-> new_text,
   mutation_slug |-> slug]

\* PartialMutant for a whole node: byte_offset = node.start_byte(),
\* old_text = node_text(node)
emit_node(T, i, new_text, slug) ==
  [byte_offset |-> T.nodes[i].start_byte,
   line_offset |-> calculate_line_offset(T.text, T.nodes[i].start_byte),
   old_text |-> node_text(T, i),
   new_text |-> new_text,
   mutation_slug |-> slug]

\* str::starts_with, str::contains and str::replace on byte strings
starts_with(str, pat) == Len(pat) <= Len(str) /\ SubSeq(str, 1, Len(pat)) = pat

contains(str, pat) ==
  \E k \in 0..(Len(str) - Len(pat)) : SubSeq(str, k + 1, k + Len(pat)) = pat

RECURSIVE str_replace(_, _, _)
str_replace(str, from, to) ==
  IF str = << >> THEN << >>
  ELSE IF starts_with(str, from)
       THEN to \o str_replace(SubSeq(str, Len(from) + 1, Len(str)), from, to)
       ELSE <<Head(str)>> \o str_replace(Tail(str), from, to)

\* str::trim_start / trim_end
RECURSIVE trim_start(_)
trim_start(str) ==
  IF str # << >> /\ Head(str) \in {" ", "\n"} THEN trim_start(Tail(str)) ELSE str

RECURSIVE trim_end(_)
trim_end(str) ==
  IF str # << >> /\ str[Len(str)] \in {" ", "\n"}
  THEN trim_end(SubSeq(str, 1, Len(str) - 1)) ELSE str

\* wrap: every node of the kinds, outside comments and not nested in another
\* node of the kinds, with prefix and suffix around its text
wrap(T, node_kinds, prefix, suffix, slug) ==
  {emit_node(T, i, prefix \o node_text(T, i) \o suffix, slug)
     : i \in {i \in DOMAIN T.nodes :
                /\ T.nodes[i].kind \in node_kinds
                /\ ~is_in_comment(T, i)
                /\ ~has_ancestor_with_kind(T, i, node_kinds)}}

\* replace: every such node that passes the filter (a closure over the node,
\* here its truth value per node), replaced by a fixed text
replace(T, node_kinds, replacement_text, should_replace, slug) ==
  {emit_node(T, i, replacement_text, slug)
     : i \in {i \in DOMAIN T.nodes :
                /\ T.nodes[i].kind \in node_kinds
                /\ ~is_in_comment(T, i)
                /\ ~has_ancestor_with_kind(T, i, node_kinds)
                /\ should_replace[i]}}

\* a condition replacement that is never parenthesised
condition_text_bare(old_text, replacement) == replacement

\* the replacement of a condition, parenthesised when the old one is
condition_text(old_text, replacement) ==
  IF /\ starts_with(trim_start(old_text), <<"(">>)
     /\ trim_end(old_text) # << >>
     /\ trim_end(old_text)[Len(trim_end(old_text))] = ")"
  THEN <<"(">> \o replacement \o <<")">>
  ELSE replacement

\* first_named_child_after_keyword: the children that are neither keyword nor
\* punctuation and are named (the first of them is taken)
first_named_child_after_keyword(T, i, keywords) ==
  SelectSeq(children(T, i),
            LAMBDA j : /\ T.nodes[j].kind \notin keywords
                       /\ ~is_punctuation_kind(T.nodes[j].kind)
                       /\ is_named(T.nodes[j].kind))

\* replace_condition: the condition field of every node of the kind outside
\* comments, or else its first named child after the keyword
replace_condition(T, node_kind, condition_field_name, keyword_kinds, replacement, slug) ==
  UNION {
    LET by_field == child_by_field_name(T, i, condition_field_name)
        by_position == first_named_child_after_keyword(T, i, keyword_kinds)
    IN IF by_field # << >>
       THEN {emit_node(T, by_field[1],
                       condition_text(node_text(T, by_field[1]), replacement), slug)}
       ELSE IF by_position # << >> /\ T.nodes[by_position[1]].kind \notin {";", "{"}
       THEN {emit_node(T, by_position[1],
                       condition_text(node_text(T, by_position[1]), replacement), slug)}
       ELSE {}
    : i \in {i \in DOMAIN T.nodes :
               T.nodes[i].kind = node_kind /\ ~is_in_comment(T, i)}}

\* the arguments node of a call: the field, or else the first child whose
\* kind is one of the alternatives or the field name itself
args_node_of(T, i, args_field_name, alt_args_kinds) ==
  IF child_by_field_name(T, i, args_field_name) # << >>
  THEN child_by_field_name(T, i, args_field_name)
  ELSE SelectSeq(children(T, i),
                 LAMBDA j : \/ T.nodes[j].kind \in alt_args_kinds
                            \/ T.nodes[j].kind = args_field_name)

\* replace_first_arg: in every call outside comments whose callee matches
\* (a predicate on the callee text, here the set of texts it accepts),
\* the first child of the arguments node that is not punctuation
replace_first_arg(T, call_node_kinds, args_field_name, alt_args_kinds, callee_matches, replacement, slug) ==
  UNION {
    LET args_node == args_node_of(T, i, args_field_name, alt_args_kinds)
        firsts == IF args_node = << >> THEN << >>
                  ELSE SelectSeq(children(T, args_node[1]),
                                 LAMBDA j : ~is_punctuation_kind(T.nodes[j].kind))
    IN IF firsts # << >> THEN {emit_node(T, firsts[1], replacement, slug)} ELSE {}
    : i \in {i \in DOMAIN T.nodes :
               /\ T.nodes[i].kind \in call_node_kinds
               /\ ~is_in_comment(T, i)
               /\ children(T, i) # << >>
               /\ node_text(T, children(T, i)[1]) \in callee_matches}}

\* the elements of a sequence
range(seq) == {seq[k] : k \in DOMAIN seq}

\* shuffle_impl, full_node_mode: the text a node gets for one replacement
\* (with two options the option found in the text is substituted inside it)
shuffled_text(text, options, replacement) ==
  IF Len(options) = 2
  THEN IF contains(text, options[1])
       THEN str_replace(text, options[1], replacement)
       ELSE str_replace(text, options[2], replacement)
  ELSE replacement

\* shuffle_impl: for every node of the kinds outside comments, either the
\* whole node (full_node_mode) or each child token that is one of the
\* options, replaced by every other option
shuffle_impl(T, node_kinds, options, full_node_mode, slug) ==
  LET hits == {i \in DOMAIN T.nodes :
                 T.nodes[i].kind \in node_kinds /\ ~is_in_comment(T, i)}
  IN IF full_node_mode
     THEN {emit_node(T, x[1], shuffled_text(node_text(T, x[1]), options, x[2]), slug)
             : x \in {y \in hits \X range(options) :
                        LET text == node_text(T, y[1]) IN
                          /\ IF Len(options) = 2
                             THEN contains(text, options[1]) \/ contains(text, options[2])
                             ELSE text \in range(options)
                          /\ y[2] # text
                          /\ shuffled_text(text, options, y[2]) # text}}
     ELSE {emit_node(T, x[1], x[2], slug)
             : x \in {y \in (DOMAIN T.nodes) \X range(options) :
                        /\ T.nodes[y[1]].parent \in hits
                        /\ node_text(T, y[1]) \in range(options)
                        /\ y[2] # node_text(T, y[1])}}

\* shuffle_operators
shuffle_operators(T, expr_node_kinds, operators, slug) ==
  shuffle_impl(T, expr_node_kinds, operators, FALSE, slug)

\* shuffle_nodes
shuffle_nodes(T, node_kinds, alternatives, slug) ==
  shuffle_impl(T, node_kinds, alternatives, TRUE, slug)

\* swap_args: in every node of the kinds outside comments, each pair of
\* neighbouring children of the arguments field other than "(", ")" and ",",
\* the span from the start of the first to the end of the second replaced
\* by "second, first"
swap_args(T, node_kinds, args_field_name, slug) ==
  UNION {
    LET args_node == child_by_field_name(T, i, args_field_name)
        arg_nodes == IF args_node = << >> THEN << >>
                     ELSE SelectSeq(children(T, args_node[1]),
                               LAMBDA j : T.nodes[j].kind \notin {"(", ")", ","})
    IN {emit(T, T.nodes[arg_nodes[k]].start_byte, T.nodes[arg_nodes[k + 1]].end_byte,
             node_text(T, arg_nodes[k + 1]) \o <<",", " ">>
               \o node_text(T, arg_nodes[k]),
             slug)
          : k \in 1..(Len(arg_nodes) - 1)}
    : i \in {i \in DOMAIN T.nodes :
               T.nodes[i].kind \in node_kinds /\ ~is_in_comment(T, i)}}

\* number of parsed sources the engine is run on
MaxSources == 6

\* a tree-sitter node
Node(kind, start_byte, end_byte, parent, field) ==
  [kind |-> kind, start_byte |-> start_byte, end_byte |-> end_byte,
   parent |-> parent, field |-> field]

\* the parsed sources: text and nodes as tree-sitter gives them, comments
\* being extra nodes that sit where they occur, also among arguments
Source(n) ==
  CASE n = 1 ->  \* f(a,b);
       [text |-> <<"f", "(", "a", ",", "b", ")", ";">>,
        nodes |-> <<
          Node("source_file", 0, 7, 0, ""),
          Node("expression_statement", 0, 7, 1, ""),
          Node("call_expression", 0, 6, 2, ""),
          Node("identifier", 0, 1, 3, "function"),
          Node("arguments", 1, 6, 3, "arguments"),
          Node("(", 1, 2, 5, ""),
          Node("identifier", 2, 3, 5, ""),
          Node(",", 3, 4, 5, ""),
          Node("identifier", 4, 5, 5, ""),
          Node(")", 5, 6, 5, ""),
          Node(";", 6, 7, 2, "")
        >>]
    [] n = 2 ->  \* f(a,/**/b);
       [text |-> <<"f", "(", "a", ",", "/", "*", "*", "/", "b", ")", ";">>,
        nodes |-> <<
          Node("source_file", 0, 11, 0, ""),
          Node("expression_statement", 0, 11, 1, ""),
          Node("call_expression", 0, 10, 2, ""),
          Node("identifier", 0, 1, 3, "function"),
          Node("arguments", 1, 10, 3, "arguments"),
          Node("(", 1, 2, 5, ""),
          Node("identifier", 2, 3, 5, ""),
          Node(",", 3, 4, 5, ""),
          Node("comment", 4, 8, 5, ""),
          Node("identifier", 8, 9, 5, ""),
          Node(")", 9, 10, 5, ""),
          Node(";", 10, 11, 2, "")
        >>]
    [] n = 3 ->  \* f(/**/a,b);
       [text |-> <<"f", "(", "/", "*", "*", "/", "a", ",", "b", ")", ";">>,
        nodes |-> <<
          Node("source_file", 0, 11, 0, ""),
          Node("expression_statement", 0, 11, 1, ""),
          Node("call_expression", 0, 10, 2, ""),
          Node("identifier", 0, 1, 3, "function"),
          Node("arguments", 1, 10, 3, "arguments"),
          Node("(", 1, 2, 5, ""),
          Node("comment", 2, 6, 5, ""),
          Node("identifier", 6, 7, 5, ""),
          Node(",", 7, 8, 5, ""),
          Node("identifier", 8, 9, 5, ""),
          Node(")", 9, 10, 5, ""),
          Node(";", 10, 11, 2, "")
        >>]
    [] n = 4 ->  \* 1+true;
       [text |-> <<"1", "+", "t", "r", "u", "e", ";">>,
        nodes |-> <<
          Node("source_file", 0, 7, 0, ""),
          Node("expression_statement", 0, 7, 1, ""),
          Node("binary_expression", 0, 6, 2, ""),
          Node("number_literal", 0, 1, 3, "left"),
          Node("+", 1, 2, 3, "operator"),
          Node("boolean_literal", 2, 6, 3, "right"),
          Node(";", 6, 7, 2, "")
        >>]
    [] n = 5 ->  \* if(c)\n{/**/s;}
       [text |-> <<"i", "f", "(", "c", ")", "\n", "{", "/", "*", "*", "/", "s", ";", "}">>,
        nodes |-> <<
          Node("source_file", 0, 14, 0, ""),
          Node("if_statement", 0, 14, 1, ""),
          Node("if", 0, 2, 2, ""),
          Node("parenthesized_expression", 2, 5, 2, "condition"),
          Node("(", 2, 3, 4, ""),
          Node("identifier", 3, 4, 4, ""),
          Node(")", 4, 5, 4, ""),
          Node("block", 6, 14, 2, "consequence"),
          Node("{", 6, 7, 8, ""),
          Node("comment", 7, 11, 8, ""),
          Node("expression_statement", 11, 13, 8, ""),
          Node("identifier", 11, 12, 11, ""),
          Node(";", 12, 13, 11, ""),
          Node("}", 13, 14, 8, "")
        >>]
    [] n = 6 ->  \* while/**/c{}
       [text |-> <<"w", "h", "i", "l", "e", "/", "*", "*", "/", "c", "{", "}">>,
        nodes |-> <<
          Node("source_file", 0, 12, 0, ""),
          Node("while_statement", 0, 12, 1, ""),
          Node("while", 0, 5, 2, ""),
          Node("comment", 5, 9, 2, ""),
          Node("identifier", 9, 10, 2, ""),
          Node("block", 10, 12, 2, ""),
          Node("{", 10, 11, 6, ""),
          Node("}", 11, 12, 6, "")
        >>]
    [] n = 7 ->  \* /*f(a,b);*/
       [text |-> <<"/", "*", "f", "(", "a", ",", "b", ")", ";", "*", "/">>,
        nodes |-> <<
          Node("source_file", 0, 11, 0, ""),
          Node("comment", 0, 11, 1, "")
        >>]

\* the statement kinds the ER and CR mutations look for
STATEMENTS == {"expression_statement", "if_statement", "while_statement"}

\* "assert!(" and "assert!(false);"
ASSERT_OPEN == <<"a", "s", "s", "e", "r", "t", "!", "(">>
ASSERT_FALSE == ASSERT_OPEN \o <<"f", "a", "l", "s", "e", ")", ";">>

\* the filter of the ER mutation: the statement holds no assert!( yet
no_assert(T) == [i \in DOMAIN T.nodes |-> ~contains(node_text(T, i), ASSERT_OPEN)]

\* a callee filter that accepts the callees of the sources
any_callee == {<<"f">>}

\* a splice that cuts as many bytes as it inserts
splice_inserted_length(content, byte_offset, removed, inserted) ==
  SubSeq(content, 1, byte_offset) \o inserted
    \o SubSeq(content, byte_offset + Len(inserted) + 1, Len(content))

\* the byte splice of Target::mutate: the bytes before byte_offset, the
\* inserted text, the bytes after the removed span
splice(content, byte_offset, removed, inserted) ==
  SubSeq(content, 1, byte_offset) \o inserted
    \o SubSeq(content, byte_offset + removed + 1, Len(content))

\* the commands and the store at rest while the engine runs on a target
InitEngine ==
  /\ \E n \in 1..MaxSources : tree = Source(n)
  /\ emitted = {}
  /\ mutated = {}
  /\ cfg = None /\ outcomes = {}
  /\ runner_idle /\ store_idle /\ config_idle /\ later_idle

outside_engine == <<cfg, outcomes, runner_vars, store_vars, config_vars, later_vars>>

\* apply_all_mutations, "ER": statements replaced by assert!(false);
mutation_ER ==
  /\ emitted' = emitted \cup replace(tree, STATEMENTS, ASSERT_FALSE, no_assert(tree), "ER")
  /\ UNCHANGED <<tree, mutated, outside_engine>>

\* apply_all_mutations, "CR": statements wrapped in a block comment
mutation_CR ==
  /\ emitted' = emitted \cup wrap(tree, STATEMENTS, <<"/", "*", " ">>, <<" ", "*", "/">>, "CR")
  /\ UNCHANGED <<tree, mutated, outside_engine>>

\* apply_all_mutations, "IF": if conditions replaced by false
mutation_IF ==
  /\ emitted' = emitted \cup
       replace_condition(tree, "if_statement", "condition", {"if"},
                         <<"f", "a", "l", "s", "e">>, "IF")
  /\ UNCHANGED <<tree, mutated, outside_engine>>

\* apply_all_mutations, "WF": while conditions replaced by false
mutation_WF ==
  /\ emitted' = emitted \cup
       replace_condition(tree, "while_statement", "condition", {"while"},
                         <<"f", "a", "l", "s", "e">>, "WF")
  /\ UNCHANGED <<tree, mutated, outside_engine>>

\* apply_all_mutations, "AS": neighbouring call arguments swapped
mutation_AS ==
  /\ emitted' = emitted \cup swap_args(tree, {"call_expression"}, "arguments", "AS")
  /\ UNCHANGED <<tree, mutated, outside_engine>>

\* apply_all_mutations, "AOS": arithmetic operators shuffled
mutation_AOS ==
  /\ emitted' = emitted \cup
       shuffle_operators(tree, {"binary_expression"},
                         << <<"+">>, <<"-">>, <<"*">>, <<"/">> >>, "AOS")
  /\ UNCHANGED <<tree, mutated, outside_engine>>

\* apply_all_mutations, "BL": boolean literals flipped
mutation_BL ==
  /\ emitted' = emitted \cup
       shuffle_nodes(tree, {"boolean_literal"},
                     << <<"t", "r", "u", "e">>, <<"f", "a", "l", "s", "e">> >>, "BL")
  /\ UNCHANGED <<tree, mutated, outside_engine>>

\* replace_first_arg on the calls of the target: first argument replaced by 0
first_arg_replaced ==
  /\ emitted' = emitted \cup
       replace_first_arg(tree, {"call_expression"}, "arguments", {}, any_callee,
                         <<"0">>, "FA")
  /\ UNCHANGED <<tree, mutated, outside_engine>>

\* Target::mutate on an emitted mutant of the target
mutate_emitted ==
  /\ \E m \in emitted :
       mutated' = {[mutant |-> m,
                    text |-> splice(tree.text, m.byte_offset, Len(m.old_text),
                                    m.new_text)]}
  /\ UNCHANGED <<tree, emitted, outside_engine>>

NextEngine ==
  \/ mutation_ER
  \/ mutation_CR
  \/ mutation_IF
  \/ mutation_WF
  \/ mutation_AS
  \/ mutation_AOS
  \/ mutation_BL
  \/ first_arg_replaced
  \/ mutate_emitted

SpecEngine == InitEngine /\ [][NextEngine]_engine_vars

(***************************************************************************)
(* Properties of the engine                                                *)
(***************************************************************************)
\* the comment nodes of the target
comments == {i \in DOMAIN tree.nodes : tree.nodes[i].kind = "comment"}

\* C18: no emitted mutant has a byte span [byte_offset, byte_offset +
\* |old_text|) that intersects a comment node.
C18_NoMutantInComment ==
  \A m \in emitted : \A i \in comments :
    \/ m.byte_offset + Len(m.old_text) <= tree.nodes[i].start_byte
    \/ tree.nodes[i].end_byte <= m.byte_offset

\* C19: every emitted mutant's old_text is the target text at
\* [byte_offset, byte_offset + |old_text|).
C19_EditValidity ==
  \A m \in emitted :
    /\ m.byte_offset + Len(m.old_text) <= Len(tree.text)
    /\ SubSeq(tree.text, m.byte_offset + 1, m.byte_offset + Len(m.old_text)) = m.old_text

\* both modes of shuffle_impl have emitted mutants away from the start
C19_Witness ==
  /\ \E m \in emitted : m.mutation_slug = "BL" /\ m.byte_offset > 0
  /\ \E m \in emitted : m.mutation_slug = "AOS" /\ m.byte_offset > 0

\* C20: the text Target::mutate gives for a mutant of the target, with the
\* |new_text| bytes at byte_offset replaced by old_text, is the target text.
C20_RoundTrip ==
  \A x \in mutated :
    SubSeq(x.text, 1, x.mutant.byte_offset) \o x.mutant.old_text
      \o SubSeq(x.text, x.mutant.byte_offset + Len(x.mutant.new_text) + 1, Len(x.text))
    = tree.text

\* a mutant in the middle of the text that changes its length was applied
C20_Witness ==
  \E x \in mutated :
    /\ x.mutant.byte_offset > 0
    /\ Len(x.mutant.new_text) # Len(x.mutant.old_text)
    /\ x.mutant.byte_offset + Len(x.mutant.old_text) < Len(tree.text)
    /\ x.text # tree.text


(***************************************************************************)
(* Language rulebooks: advertised descriptors and slug dispatch            *)
(***************************************************************************)
Languages == {"Rust", "JavaScript", "Solidity", "Tolk"}

\* the spec names the severity of ER and CR only; the other descriptors
\* carry Medium here
descriptor(slug) ==
  [slug |-> slug,
   severity |-> CASE slug = "ER" -> "High" [] slug = "CR" -> "Low" [] OTHER -> "Medium"]

\* the shared table of descriptors
COMMON_MUTATIONS ==
  << descriptor("ER"), descriptor("CR"), descriptor("IF"), descriptor("IT"),
     descriptor("WF"), descriptor("AS"), descriptor("AOS"), descriptor("AAOS"),
     descriptor("BOS"), descriptor("BAOS"), descriptor("BL"), descriptor("COS"),
     descriptor("LOS"), descriptor("SOS"), descriptor("SAOS"), descriptor("LC") >>

\* the per-language tables appended to it
LANGUAGE_MUTATIONS(l) == IF l = "Rust" THEN << descriptor("RZ") >> ELSE << >>

\* a constructor that appends the shared table twice
new_common_twice(l) == COMMON_MUTATIONS \o COMMON_MUTATIONS \o LANGUAGE_MUTATIONS(l)

\* XLanguageEngine::new / get_mutations: the shared table, then the language's
get_mutations(l) == COMMON_MUTATIONS \o LANGUAGE_MUTATIONS(l)

\* a dispatch that knows the shared slugs only
match_arms_shared(l) ==
  {"ER", "CR", "IF", "IT", "WF", "AS", "AOS", "AAOS", "BOS", "BAOS", "BL",
   "COS", "LOS", "SOS", "SAOS", "LC"}

\* the slugs the `match m.slug` of apply_all_mutations has an arm for
match_arms(l) ==
  CASE l = "Rust" ->
         {"ER", "CR", "IF", "IT", "WF", "RZ", "AS", "AOS", "AAOS", "BOS", "BAOS",
          "BL", "COS", "LOS", "SOS", "SAOS", "LC"}
    [] l = "JavaScript" ->
         {"ER", "CR", "IF", "IT", "WF", "AS", "LC", "BL", "AOS", "AAOS", "BOS",
          "BAOS", "LOS", "COS", "SOS", "SAOS"}
    [] l = "Solidity" ->
         {"ER", "CR", "IF", "IT", "WF", "AS", "AOS", "AAOS", "BOS", "BAOS", "BL",
          "COS", "LOS", "SOS", "SAOS", "LC"}
    [] l = "Tolk" ->
         {"ER", "CR", "IF", "IT", "WF", "AS", "AOS", "AAOS", "BOS", "BAOS", "BL",
          "COS", "LOS", "SOS", "SAOS", "LC"}

\* LanguageEngine::get_severity_by_slug over a rulebook's descriptors: the
\* severity of the first descriptor with the slug, if any
find_severity(ms, slug) ==
  LET hits == {i \in 1..Len(ms) : ms[i].slug = slug}
  IN IF hits = {} THEN {}
     ELSE {ms[CHOOSE i \in hits : \A j \in hits : i <= j].severity}

\* slugs a caller may ask about: every advertised one and an unknown one
AskedSlugs == {COMMON_MUTATIONS[i].slug : i \in 1..Len(COMMON_MUTATIONS)} \cup {"RZ", "XX"}

outside_rulebook ==
  <<cfg, outcomes, runner_vars, store_vars, config_vars, engine_vars, report, calls,
    partials>>

InitRulebook ==
  /\ language \in Languages
  /\ position = 0
  /\ dispatched = {}
  /\ panicked = FALSE
  /\ severity = [slug |-> None, answer |-> {}]
  /\ report = None /\ calls = None /\ partials = << >>
  /\ cfg = None /\ outcomes = {}
  /\ runner_idle /\ store_idle /\ config_idle /\ engine_idle

\* apply_all_mutations: parse_source gives no tree, nothing is generated
parse_source_none ==
  /\ position = 0
  /\ position' = Len(get_mutations(language)) + 1
  /\ UNCHANGED <<language, dispatched, panicked, severity, outside_rulebook>>

\* apply_all_mutations: the file parses, the loop over the descriptors starts
parse_source_some ==
  /\ position = 0
  /\ position' = 1
  /\ UNCHANGED <<language, dispatched, panicked, severity, outside_rulebook>>

\* one round of `for m in &self.mutations { match m.slug { ... } }`
match_slug ==
  /\ position \in 1..Len(get_mutations(language))
  /\ ~panicked
  /\ LET slug == get_mutations(language)[position].slug IN
       IF slug \in match_arms(language)
       THEN /\ dispatched' = dispatched \cup {slug}
            /\ position' = position + 1
            /\ UNCHANGED panicked
       ELSE /\ panicked' = TRUE
            /\ UNCHANGED <<dispatched, position>>
  /\ UNCHANGED <<language, severity, outside_rulebook>>

\* a caller asks the rulebook for a slug's severity
call_get_severity_by_slug ==
  /\ \E slug \in AskedSlugs :
       severity' = [slug |-> slug, answer |-> find_severity(get_mutations(language), slug)]
  /\ UNCHANGED <<language, position, dispatched, panicked, outside_rulebook>>

NextRulebook ==
  \/ parse_source_none
  \/ parse_source_some
  \/ match_slug
  \/ call_get_severity_by_slug

SpecRulebook == InitRulebook /\ [][NextRulebook]_rulebook_vars

advertised(l) == {get_mutations(l)[i].slug : i \in 1..Len(get_mutations(l))}

\* C21: the dispatch loop of a rulebook never reaches the unknown-slug arm,
\* and when it has gone through a parsed file every advertised slug has been
\* dispatched
C21_DispatchTotality ==
  /\ ~panicked
  /\ (position = Len(get_mutations(language)) + 1 /\ dispatched # {})
       => dispatched = advertised(language)

C21_Witness ==
  /\ language = "Rust"
  /\ position = Len(get_mutations(language)) + 1
  /\ "RZ" \in dispatched

\* C22: no rulebook advertises a slug twice, so the severity answered for a
\* slug is the severity of the only descriptor that carries it
C22_DistinctSlugs ==
  LET ms == get_mutations(language) IN
    /\ \A i, j \in 1..Len(ms) : ms[i].slug = ms[j].slug => i = j
    /\ severity.slug # None =>
         /\ Cardinality({i \in 1..Len(ms) : ms[i].slug = severity.slug}) <= 1
         /\ \A i \in 1..Len(ms) :
              ms[i].slug = severity.slug => severity.answer = {ms[i].severity}

C22_Witness ==
  /\ language = "Rust"
  /\ severity.slug = "RZ"
  /\ severity.answer = {"Medium"}


(***************************************************************************)
(* The test command on the text of an id list                              *)
(***************************************************************************)
MaxInput == 3

InputChars == {"1", "3", "x", ","}

\* the texts --ids can carry: ids, separators and characters that are neither
Inputs == UNION {[1..n -> InputChars] : n \in 0..MaxInput}

\* the commands started on such a text, with a per-target rule in force
InitTest ==
  /\ args \in {[command |-> "test", ids |-> s, comprehensive |-> FALSE] : s \in Inputs}
              \cup {[command |-> "run", ids |-> << >>, comprehensive |-> FALSE]}
  /\ cfg = [cli_cmd |-> None, cli_timeout |-> None, cmd |-> "make test", timeout |-> None,
            per_target |-> << [glob |-> "src/b.rs", cmd |-> "make b", timeout |-> "10"] >>]
  /\ outcomes = {}
  /\ initial = outcomes
  /\ disk = [p \in {TargetPath(t) : t \in TargetIds} |->
               TargetText(CHOOSE t \in TargetIds : TargetPath(t) = p)]
  /\ running = TRUE
  /\ pc = "start"
  /\ all_groups = << >>
  /\ groups = << >>
  /\ group = NoGroup
  /\ group_ids = << >>
  /\ cur = 0
  /\ result = None
  /\ exit_code = None
  /\ injected = {}
  /\ spawns = 0
  /\ passed = {}
  /\ failed_group = {}
  /\ stopped = FALSE
  /\ late_work = 0
  /\ store_idle /\ config_idle /\ engine_idle /\ later_idle

SpecTest == InitTest /\ [][Next]_vars

\* a piece of the text that is an integer literal
is_integer(token) ==
  LET body == IF token # << >> /\ token[1] \in {"+", "-"} THEN Tail(token) ELSE token
  IN body # << >> /\ \A i \in 1..Len(body) : is_digit(body[i])

\* the non-empty pieces of the text
pieces(input) == {split(input)[i] : i \in {i \in 1..Len(split(input)) : split(input)[i] # << >>}}

\* the command failed before any baseline or mutant was run
aborted_before_running ==
  /\ spawns = 0
  /\ injected = {}
  /\ pc \in {"start", "failed", "done"}
  /\ pc = "done" => exit_code = 1

\* C23 as stated: an id list with a piece that is not an integer makes the
\* test command fail with InvalidInput before any baseline or mutant is run
C23_MalformedListAborts ==
  (args.command = "test" /\ \E token \in pieces(args.ids) : ~is_integer(token))
    => aborted_before_running

\* C23: an id list without a single integer (empty, or every piece malformed)
\* makes the test command fail with InvalidInput before any baseline or
\* mutant is run
C23_NoIntegerAborts ==
  (args.command = "test" /\ \A token \in pieces(args.ids) : ~is_integer(token))
    => aborted_before_running

C23_Witness ==
  /\ args.command = "test"
  /\ args.ids = <<"x", ",", "x">>
  /\ pc = "done"
  /\ exit_code = 1


\* ids of the batch for which get_mutant answers NotFound
not_found(ids) == {ids[i] : i \in 1..Len(ids)} \ MutantIds

\* ids of the batch whose mutant and target exist and have a test command
found(c, ids) == {id \in {ids[i] : i \in 1..Len(ids)} : groupable(c, id)}

status_from_str(str) == IF str \in OutcomeStatuses THEN {str} ELSE {}

\* normalize_status: the canonical name of a status filter, if it parses
normalize_status(status_str) ==
  IF status_str = None \/ status_from_str(status_str) = {} THEN None
  ELSE CHOOSE st \in status_from_str(status_str) : TRUE

\* number of newlines in a text
RECURSIVE newlines(_)
newlines(text) ==
  IF text = << >> THEN 0
  ELSE (IF Head(text) = "\n" THEN 1 ELSE 0) + newlines(Tail(text))

\* Mutant::get_lines: the 1-based first and last line of the replaced span
get_lines(m) == <<m.line_offset + 1, m.line_offset + 1 + newlines(m.old_text)>>

\* one element of the results data: (Mutant, Target, Outcome)
data_row(outs, id) ==
  [mutant |-> MutantRows[id],
   target |-> get_target(MutantRows[id].target_id),
   outcome |-> get_outcome(outs, id)]

\* SqlStore::get_outcomes_filtered with a status filter only: the join of
\* mutants, targets and outcomes, WHERE o.status = ?
get_outcomes_filtered(outs, status) ==
  LET ids == ascending({id \in MutantIds :
                          \E o \in outs : /\ o.mutant_id = id
                                          /\ (status = None \/ o.status = status)})
  IN [i \in 1..Len(ids) |-> data_row(outs, ids[i])]

\* get_mutants of a target followed by sort_by_key(|m| m.byte_offset)
sorted_by_byte_offset(t) ==
  LET keys == ascending({MutantRows[id].byte_offset * (MaxMutants + 1) + id :
                           id \in {id \in MutantIds : MutantRows[id].target_id = t}})
  IN [i \in 1..Len(keys) |-> keys[i] % (MaxMutants + 1)]

\* the legacy path of get_results_data: per target, its mutants by byte
\* offset, those with an outcome that the flags let through
RECURSIVE legacy_results(_, _, _)
legacy_results(outs, filters, ts) ==
  IF ts = << >> THEN << >>
  ELSE LET ids == SelectSeq(sorted_by_byte_offset(Head(ts)),
                    LAMBDA id : \E o \in outs :
                      /\ o.mutant_id = id
                      /\ (filters.all \/ filters.verbose \/ o.status = "Uncaught"))
       IN [i \in 1..Len(ids) |-> data_row(outs, ids[i])]
            \o legacy_results(outs, filters, Tail(ts))

\* get_results_data: by id, else by the filtered query, else the legacy path
get_results_data(outs, filters) ==
  IF filters.id # {}
  THEN LET id == CHOOSE id \in filters.id : TRUE
       IN IF id \in MutantIds /\ \E o \in outs : o.mutant_id = id
          THEN <<data_row(outs, id)>>
          ELSE << >>
  ELSE IF filters.status # None
  THEN get_outcomes_filtered(outs, normalize_status(filters.status))
  ELSE legacy_results(outs, filters, ascending(TargetIds))

\* a SARIF result for every element of the data, whatever its status
sarif_results_unfiltered(data) ==
  [i \in 1..Len(data) |->
     [ruleId |-> data[i].mutant.mutation_slug,
      level |-> "warning",
      message |-> <<"Uncaught mutant: '", data[i].mutant.old_text, "' -> '",
                    data[i].mutant.new_text, "'">>,
      uri |-> data[i].target.path,
      startLine |-> get_lines(data[i].mutant)[1]]]

\* execute_results, "sarif": the Uncaught elements of the data as results
sarif_results(data) ==
  LET uncaught == SelectSeq(data, LAMBDA d : d.outcome.status = "Uncaught")
  IN [i \in 1..Len(uncaught) |->
        [ruleId |-> uncaught[i].mutant.mutation_slug,
         level |-> "warning",
         message |-> <<"Uncaught mutant: '", uncaught[i].mutant.old_text, "' -> '",
                       uncaught[i].mutant.new_text, "'">>,
         uri |-> uncaught[i].target.path,
         startLine |-> get_lines(uncaught[i].mutant)[1]]]

\* the SarifReport document
sarif_report(data) ==
  [version |-> "2.1.0",
   runs |-> << [tool |-> "mewt", results |-> sarif_results(data)] >>]

\* `results --format sarif` command lines: --id, --all, --verbose, --status
ResultsFilters ==
  {[command |-> "results", format |-> "sarif", id |-> i, all |-> a, verbose |-> FALSE,
    status |-> st]
     : i \in {{}, {1}, {MaxMutants + 1}}, a \in BOOLEAN,
       st \in {None, "Uncaught", "TestFail", "bogus"}}

\* catalogs in which each mutant has no outcome or one of any status
CatalogOutcomes ==
  {{[mutant_id |-> id, status |-> f[id], time |-> 0] : id \in {id \in MutantIds : f[id] # None}}
     : f \in [MutantIds -> OutcomeStatuses \cup {None}]}

InitResults ==
  /\ args \in ResultsFilters
  /\ outcomes \in CatalogOutcomes
  /\ report = [version |-> None, runs |-> << >>]
  /\ cfg = None
  /\ initial = {} /\ disk = None /\ running = TRUE
  /\ pc = None /\ all_groups = << >> /\ groups = << >> /\ group = NoGroup
  /\ group_ids = << >> /\ cur = 0 /\ result = None /\ exit_code = None
  /\ injected = {} /\ spawns = 0 /\ passed = {} /\ failed_group = {}
  /\ stopped = FALSE /\ late_work = 0
  /\ store_idle /\ config_idle /\ engine_idle /\ rulebook_idle /\ calls = None
  /\ partials = << >>

\* execute_results with format "sarif": fetch the data, print the report
execute_results ==
  /\ report.version = None
  /\ report' = sarif_report(get_results_data(outcomes, args))
  /\ UNCHANGED <<cfg, outcomes, runner_vars, store_vars, config_vars, engine_vars,
                 rulebook_vars, calls, partials>>

NextResults == execute_results

results_view == <<args, outcomes, report>>

SpecResults == InitResults /\ [][NextResults]_results_view

\* mutants of the selected data (one id, one status, or everything) whose
\* outcome is Uncaught
selected_uncaught ==
  {id \in MutantIds :
     /\ \E o \in outcomes : o.mutant_id = id /\ o.status = "Uncaught"
     /\ args.id # {} => id \in args.id
     /\ (args.id = {} /\ args.status \in OutcomeStatuses) => args.status = "Uncaught"}

\* C25: the SARIF report has exactly one run; its results are one per
\* Uncaught mutant of the selected data, carrying that mutant's slug, path
\* and 1-based line, and none for any other status; every startLine is >= 1.
C25_SarifShape ==
  report.version # None =>
    /\ Len(report.runs) = 1
    /\ LET rs == report.runs[1].results IN
         /\ Len(rs) = Cardinality(selected_uncaught)
         /\ {<<rs[i].ruleId, rs[i].uri, rs[i].startLine>> : i \in 1..Len(rs)}
              = {<<MutantRows[id].mutation_slug, TargetPath(MutantRows[id].target_id),
                   MutantRows[id].line_offset + 1>> : id \in selected_uncaught}
         /\ \A i \in 1..Len(rs) : rs[i].startLine >= 1 /\ rs[i].level = "warning"

\* a report over a catalog with Uncaught and other outcomes, all selected
C25_Witness ==
  /\ report.version # None
  /\ args.all /\ args.id = {} /\ args.status = None
  /\ Len(report.runs[1].results) = 2
  /\ \E o \in outcomes : o.status = "TestFail"
  /\ \E o \in outcomes : o.status = "Skipped"


\* the ids the command was asked to process whose mutant and target exist
\* and have a test command
listed ==
  LET ids == IF args.command = "test" THEN read_mutant_ids(args.ids)
             ELSE get_mutants_to_test(initial)
  IN {id \in {ids[i] : i \in 1..Len(ids)} : groupable(cfg, id)}

\* C26: the groups partition the listed mutants by their resolved (command,
\* timeout) pair: every listed mutant with a test command is in the group of
\* its pair and in no other; a group's baseline is run at most once, and a
\* mutant is injected only after the baseline of its group has run and passed.
C26_GroupsAndBaseline ==
  /\ [](pc \notin {"start", "failed"} =>
          /\ \A id \in listed :
               /\ group_key(cfg, id) \in DOMAIN all_groups
               /\ \A k \in DOMAIN all_groups : id \in ids_of(k) <=> k = group_key(cfg, id)
          /\ \A k \in DOMAIN all_groups : ids_of(k) # {} /\ ids_of(k) \subseteq listed)
  /\ [][(pc = "baseline" /\ pc' # pc) => group \notin (passed \cup failed_group)]_vars
  /\ [][(pc = "test_mutant" /\ pc' = "execute")
          => (group \in passed /\ cur \in ids_of(group) /\ spawns >= Cardinality(passed))]_vars

\* two groups, each baselined once (two baselines, two mutant runs), both
\* with an injected mutant
C26_Witness ==
  /\ pc = "done"
  /\ Cardinality(DOMAIN all_groups) = 2
  /\ passed = DOMAIN all_groups
  /\ \A k \in DOMAIN all_groups : ids_of(k) \cap injected # {}
  /\ spawns = 4


\* the ids of the current group taken from its list before the next one
taken_before == SubSeq(all_groups[group], 1, Len(all_groups[group]) - Len(group_ids))

\* C27: within one target, the mutants of a group are taken for processing
\* in ascending byte_offset order: a mutant is never taken after a mutant of
\* the same target and group with a larger byte_offset.
C27_AscendingByteOffset ==
  [][(pc = "mutant_loop" /\ pc' = "test_mutant")
       => \A i \in 1..Len(taken_before) :
            MutantRows[taken_before[i]].target_id = MutantRows[cur'].target_id
              => MutantRows[taken_before[i]].byte_offset <= MutantRows[cur'].byte_offset]_vars


\* C28: a mutant is skipped (a Skipped outcome recorded instead of an
\* injection) only if, at that moment, comprehensive mode is off and another
\* mutant of the same target and the same line with a strictly higher
\* severity has an Uncaught outcome; Uncaught outcomes elsewhere never do it.
C28_SkipOnlyOnCondition ==
  [][(pc = "test_mutant" /\ pc' # pc)
       => /\ (pc' = "mutant_loop" \/ \E o \in outcomes' \ outcomes : o.status = "Skipped")
               => (~args.comprehensive /\ higher_uncaught(cur))
          /\ ~higher_uncaught(cur) => (pc' = "execute" /\ outcomes' = outcomes)]_vars

\* a low-severity mutant is injected while a high-severity mutant of another
\* line of its target is Uncaught
C28_Witness ==
  /\ ~args.comprehensive
  /\ pc = "execute"
  /\ MutantRows[cur].mutation_slug = "CR"
  /\ cur \in injected
  /\ \E o \in outcomes :
       /\ o.status = "Uncaught"
       /\ MutantRows[o.mutant_id].mutation_slug = "ER"
       /\ MutantRows[o.mutant_id].target_id = MutantRows[cur].target_id
       /\ MutantRows[o.mutant_id].line_offset # MutantRows[cur].line_offset


\* C29: no two target rows share a file_hash; add_target of a hash that is
\* not stored adds exactly one row with that hash and path and leaves every
\* stored row as it is, also a row stored under the same path; add_target of
\* a stored hash adds no row.
C29_HashIdentifiesTarget ==
  /\ [](\A a, b \in targets : a.file_hash = b.file_hash => a = b)
  /\ [][\A h \in FileHashes, p \in Paths :
          (last'.op = "add_target" /\ last'.arg = <<p, h>>)
          => IF \E r \in targets : r.file_hash = h
             THEN Cardinality(targets') = Cardinality(targets)
             ELSE /\ targets \subseteq targets'
                  /\ Cardinality(targets') = Cardinality(targets) + 1
                  /\ \E r \in targets' \ targets :
                       /\ r.file_hash = h /\ r.path = p
                       /\ last'.ret = {r.id}
                       /\ \A x \in targets : x.id # r.id]_store_view

\* a new version of a stored file was added: both versions are stored under
\* the same path
C29_Witness ==
  /\ last.op = "add_target"
  /\ last.was = {}
  /\ \E old, new \in targets :
       /\ new.id \in last.ret
       /\ old.id # new.id
       /\ old.path = new.path
       /\ old.file_hash # new.file_hash


(***************************************************************************)
(* Store calls in flight at the same time on the shared pool               *)
(***************************************************************************)
MaxCallers == 2

\* tasks or processes that hold a handle on the same catalog
Callers == 1..MaxCallers

StoredTarget == [id |-> 1, path |-> "src/a.rs", file_hash |-> "h1"]
OtherTarget == [id |-> 2, path |-> "src/b.rs", file_hash |-> "h2"]

\* the mutant of the stored target that add_mutant is called with
OneMutant == CHOOSE m \in GeneratedMutants({StoredTarget}) : m.byte_offset = 0

\* the calls made at the same time: all about one file_hash, one mutant
\* tuple, one mutant_id
StoreCalls ==
  {[op |-> "add_target", arg |-> [id |-> 0, path |-> p, file_hash |-> "h2"]] : p \in Paths}
  \cup {[op |-> "add_mutant", arg |-> OneMutant]}
  \cup {[op |-> "add_outcome", arg |-> r]
          : r \in {r \in OutcomeRows(1) : r.time = 2 /\ r.status \in {"Uncaught", "TestFail"}}}

\* the SELECT each call starts with: the rows with the call's key
select_existing(call, ts, ms, outs) ==
  CASE call.op = "add_target" -> {r \in ts : r.file_hash = call.arg.file_hash}
    [] call.op = "add_mutant" -> {r \in ms : unique_tuple(r) = unique_tuple(call.arg)}
    [] call.op = "add_outcome" -> {r \in outs : r.mutant_id = call.arg.mutant_id}

\* the unique index on targets(file_hash), on the mutant tuple and the
\* primary key of outcomes: an INSERT of a stored key is refused
unique_index_refuses(call, ts, ms, outs) == select_existing(call, ts, ms, outs) # {}

InitConcurrent ==
  /\ targets \in {{StoredTarget}, {StoredTarget, OtherTarget}}
  /\ mutants \in {{}, {[OneMutant EXCEPT !.id = 1]}}
  /\ outcomes \in {{}, {r \in OutcomeRows(1) : r.time = 1 /\ r.status = "Timeout"}}
  /\ outcomes # {} => mutants # {}
  /\ calls \in [Callers -> {[op |-> c.op, arg |-> c.arg, at |-> "lookup", seen |-> {},
                             failed |-> FALSE] : c \in StoreCalls}]
  /\ \A c \in Callers : calls[c].op = "add_outcome" => mutants # {}
  /\ last = None /\ latest = {}
  /\ cfg = None /\ report = None /\ partials = << >>
  /\ runner_idle /\ config_idle /\ engine_idle /\ rulebook_idle

outside_concurrent ==
  <<cfg, runner_vars, last, latest, config_vars, engine_vars, rulebook_vars, report,
    partials>>

\* the first statement of add_target, add_mutant and add_outcome:
\* SELECT ... fetch_optional(&self.pool).await
lookup ==
  /\ \E c \in Callers :
       /\ calls[c].at = "lookup"
       /\ calls' = [calls EXCEPT ![c].at = "write",
                                 ![c].seen = select_existing(calls[c], targets, mutants, outcomes)]
  /\ UNCHANGED <<targets, mutants, outcomes, outside_concurrent>>

\* the rest of add_target: return the row found, UPDATE its path, or INSERT
write_target ==
  /\ \E c \in Callers :
       /\ calls[c].at = "write" /\ calls[c].op = "add_target"
       /\ IF calls[c].seen # {}
          THEN LET record == CHOOSE r \in calls[c].seen : TRUE IN
                 /\ targets' = IF record.path = calls[c].arg.path THEN targets
                               ELSE {IF r.id = record.id
                                     THEN [r EXCEPT !.path = calls[c].arg.path] ELSE r
                                       : r \in targets}
                 /\ calls' = [calls EXCEPT ![c].at = "done"]
          ELSE IF unique_index_refuses(calls[c], targets, mutants, outcomes)
          THEN /\ calls' = [calls EXCEPT ![c].at = "done", ![c].failed = TRUE]
               /\ UNCHANGED targets
          ELSE /\ targets' = targets \cup
                   {[calls[c].arg EXCEPT !.id = last_insert_rowid(targets)]}
               /\ calls' = [calls EXCEPT ![c].at = "done"]
  /\ UNCHANGED <<mutants, outcomes, outside_concurrent>>

\* the rest of add_mutant: Ok(None) for a row found, else INSERT
write_mutant ==
  /\ \E c \in Callers :
       /\ calls[c].at = "write" /\ calls[c].op = "add_mutant"
       /\ IF calls[c].seen # {}
          THEN /\ calls' = [calls EXCEPT ![c].at = "done"]
               /\ UNCHANGED mutants
          ELSE IF unique_index_refuses(calls[c], targets, mutants, outcomes)
          THEN /\ calls' = [calls EXCEPT ![c].at = "done", ![c].failed = TRUE]
               /\ UNCHANGED mutants
          ELSE /\ mutants' = mutants \cup
                   {[calls[c].arg EXCEPT !.id = last_insert_rowid(mutants)]}
               /\ calls' = [calls EXCEPT ![c].at = "done"]
  /\ UNCHANGED <<targets, outcomes, outside_concurrent>>

\* the rest of add_outcome: UPDATE the row found, else INSERT
write_outcome ==
  /\ \E c \in Callers :
       /\ calls[c].at = "write" /\ calls[c].op = "add_outcome"
       /\ IF calls[c].seen # {}
          THEN /\ outcomes' = {IF o.mutant_id = calls[c].arg.mutant_id
                               THEN calls[c].arg ELSE o : o \in outcomes}
               /\ calls' = [calls EXCEPT ![c].at = "done"]
          ELSE IF unique_index_refuses(calls[c], targets, mutants, outcomes)
          THEN /\ calls' = [calls EXCEPT ![c].at = "done", ![c].failed = TRUE]
               /\ UNCHANGED outcomes
          ELSE /\ outcomes' = outcomes \cup {calls[c].arg}
               /\ calls' = [calls EXCEPT ![c].at = "done"]
  /\ UNCHANGED <<targets, mutants, outside_concurrent>>

NextConcurrent ==
  \/ lookup
  \/ write_target
  \/ write_mutant
  \/ write_outcome

concurrent_view == <<targets, mutants, outcomes, calls>>

SpecConcurrent == InitConcurrent /\ [][NextConcurrent]_concurrent_view

\* C30: calls on the same key made at the same time are serialized: between
\* a call's lookup and its write no other call changes the rows of the key,
\* no call fails, and at most one row is stored per key.
C30_SerializedWrites ==
  /\ \A c \in Callers :
       /\ ~calls[c].failed
       /\ calls[c].at = "write"
            => calls[c].seen = select_existing(calls[c], targets, mutants, outcomes)
  /\ \A a, b \in targets : a.file_hash = b.file_hash => a = b
  /\ \A a, b \in mutants : unique_tuple(a) = unique_tuple(b) => a = b
  /\ \A a, b \in outcomes : a.mutant_id = b.mutant_id => a = b

(***************************************************************************)
(* The pattern primitives on nested statements, on conditions with and     *)
(* without parentheses, on equal arguments and on nested operators         *)
(***************************************************************************)
\* number of these sources
MaxPatternSources == 6

\* further parsed sources: nested statements, conditions with and without
\* parentheses and field, equal arguments, nested binary expressions
PatternSource(n) ==
  CASE n = 1 ->  \* if(false){s;}
       [text |-> <<"i", "f", "(", "f", "a", "l", "s", "e", ")", "{", "s", ";", "}">>,
        nodes |-> <<
          Node("source_file", 0, 13, 0, ""),
          Node("if_statement", 0, 13, 1, ""),
          Node("if", 0, 2, 2, ""),
          Node("parenthesized_expression", 2, 9, 2, "condition"),
          Node("(", 2, 3, 4, ""),
          Node("boolean_literal", 3, 8, 4, ""),
          Node(")", 8, 9, 4, ""),
          Node("block", 9, 13, 2, "consequence"),
          Node("{", 9, 10, 8, ""),
          Node("expression_statement", 10, 12, 8, ""),
          Node("identifier", 10, 11, 10, ""),
          Node(";", 11, 12, 10, ""),
          Node("}", 12, 13, 8, "")
        >>]
    [] n = 2 ->  \* while false{}
       [text |-> <<"w", "h", "i", "l", "e", " ", "f", "a", "l", "s", "e", "{", "}">>,
        nodes |-> <<
          Node("source_file", 0, 13, 0, ""),
          Node("while_statement", 0, 13, 1, ""),
          Node("while", 0, 5, 2, ""),
          Node("boolean_literal", 6, 11, 2, ""),
          Node("block", 11, 13, 2, ""),
          Node("{", 11, 12, 5, ""),
          Node("}", 12, 13, 5, "")
        >>]
    [] n = 3 ->  \* while(c){}
       [text |-> <<"w", "h", "i", "l", "e", "(", "c", ")", "{", "}">>,
        nodes |-> <<
          Node("source_file", 0, 10, 0, ""),
          Node("while_statement", 0, 10, 1, ""),
          Node("while", 0, 5, 2, ""),
          Node("parenthesized_expression", 5, 8, 2, ""),
          Node("(", 5, 6, 4, ""),
          Node("identifier", 6, 7, 4, ""),
          Node(")", 7, 8, 4, ""),
          Node("block", 8, 10, 2, ""),
          Node("{", 8, 9, 8, ""),
          Node("}", 9, 10, 8, "")
        >>]
    [] n = 4 ->  \* if c{}
       [text |-> <<"i", "f", " ", "c", "{", "}">>,
        nodes |-> <<
          Node("source_file", 0, 6, 0, ""),
          Node("if_statement", 0, 6, 1, ""),
          Node("if", 0, 2, 2, ""),
          Node("identifier", 3, 4, 2, "condition"),
          Node("block", 4, 6, 2, "consequence"),
          Node("{", 4, 5, 5, ""),
          Node("}", 5, 6, 5, "")
        >>]
    [] n = 5 ->  \* f(a, a);
       [text |-> <<"f", "(", "a", ",", " ", "a", ")", ";">>,
        nodes |-> <<
          Node("source_file", 0, 8, 0, ""),
          Node("expression_statement", 0, 8, 1, ""),
          Node("call_expression", 0, 7, 2, ""),
          Node("identifier", 0, 1, 3, "function"),
          Node("arguments", 1, 7, 3, "arguments"),
          Node("(", 1, 2, 5, ""),
          Node("identifier", 2, 3, 5, ""),
          Node(",", 3, 4, 5, ""),
          Node("identifier", 5, 6, 5, ""),
          Node(")", 6, 7, 5, ""),
          Node(";", 7, 8, 2, "")
        >>]
    [] n = 6 ->  \* a+b-c;
       [text |-> <<"a", "+", "b", "-", "c", ";">>,
        nodes |-> <<
          Node("source_file", 0, 6, 0, ""),
          Node("expression_statement", 0, 6, 1, ""),
          Node("binary_expression", 0, 5, 2, ""),
          Node("binary_expression", 0, 3, 3, "left"),
          Node("identifier", 0, 1, 4, "left"),
          Node("+", 1, 2, 4, "operator"),
          Node("identifier", 2, 3, 4, "right"),
          Node("-", 3, 4, 3, "operator"),
          Node("identifier", 4, 5, 3, "right"),
          Node(";", 5, 6, 2, "")
        >>]
    [] n = 7 ->  \* a-b;
       [text |-> <<"a", "-", "b", ";">>,
        nodes |-> <<
          Node("source_file", 0, 4, 0, ""),
          Node("expression_statement", 0, 4, 1, ""),
          Node("binary_expression", 0, 3, 2, ""),
          Node("identifier", 0, 1, 3, "left"),
          Node("-", 1, 2, 3, "operator"),
          Node("identifier", 2, 3, 3, "right"),
          Node(";", 3, 4, 2, "")
        >>]

\* the arithmetic operators of the "AOS" mutation, as configured
ARITHMETIC == << <<"+">>, <<"-">>, <<"*">>, <<"/">> >>

\* Vec::extend over a sequence of vectors
RECURSIVE concat(_)
concat(seqs) == IF seqs = << >> THEN << >> ELSE Head(seqs) \o concat(Tail(seqs))

\* inner loops that push a mutant for every option, the token's own included
child_pushes_all(T, j, options, slug) ==
  IF node_text(T, j) \in range(options)
  THEN [k \in DOMAIN options |-> emit_node(T, j, options[k], slug)]
  ELSE << >>

\* shuffle_impl without full_node_mode: what the inner loops push for one
\* child of a matching node, the options taken in their order
child_pushes(T, j, options, slug) ==
  IF node_text(T, j) \in range(options)
  THEN LET others == SelectSeq(options, LAMBDA o : o # node_text(T, j))
       IN [k \in DOMAIN others |-> emit_node(T, j, others[k], slug)]
  ELSE << >>

\* shuffle_impl without full_node_mode, as the vector it returns: the nodes
\* in the order visit_nodes_with_cursor calls back (parents first, then the
\* children from left to right), the children of each in order
shuffle_impl_pushes(T, node_kinds, options, slug) ==
  LET hits == SelectSeq([i \in DOMAIN T.nodes |-> i],
                        LAMBDA i : T.nodes[i].kind \in node_kinds /\ ~is_in_comment(T, i))
  IN concat([h \in DOMAIN hits |->
               concat([c \in DOMAIN children(T, hits[h]) |->
                         child_pushes(T, children(T, hits[h])[c], options, slug)])])

InitPatterns ==
  /\ \E n \in 1..MaxPatternSources : tree = PatternSource(n)
  /\ emitted = {}
  /\ mutated = {}
  /\ cfg = None /\ outcomes = {}
  /\ runner_idle /\ store_idle /\ config_idle /\ later_idle

\* apply_all_mutations, "AOS", keeping the order of the vector
call_shuffle_operators ==
  /\ partials' = shuffle_impl_pushes(tree, {"binary_expression"}, ARITHMETIC, "AOS")
  /\ UNCHANGED <<engine_vars, cfg, outcomes, runner_vars, store_vars, config_vars,
                 rulebook_vars, report, calls>>

NextPatterns ==
  \/ mutation_ER
  \/ mutation_CR
  \/ mutation_IF
  \/ mutation_WF
  \/ mutation_AS
  \/ mutation_AOS
  \/ mutation_BL
  \/ first_arg_replaced
  \/ mutate_emitted
  \/ call_shuffle_operators

SpecPatterns == InitPatterns /\ [][NextPatterns]_<<engine_vars, partials>>

\* the nodes of the statement kinds that lie inside another such node
nested_statements ==
  {i \in DOMAIN tree.nodes :
     /\ tree.nodes[i].kind \in STATEMENTS
     /\ \E a \in ancestors(tree, i) : tree.nodes[a].kind \in STATEMENTS}

\* C31: wrap and replace emit a mutant for a node of the given kinds only if
\* no ancestor of the node has one of these kinds: of nested statements only
\* the outermost is a target of the slug, and the outermost one outside a
\* comment is a target of wrap
C31_AncestorExclusion ==
  /\ \A m \in emitted : m.mutation_slug \in {"ER", "CR"} =>
       /\ \E i \in DOMAIN tree.nodes \ nested_statements :
            /\ tree.nodes[i].kind \in STATEMENTS
            /\ tree.nodes[i].start_byte = m.byte_offset
            /\ node_text(tree, i) = m.old_text
       /\ ~\E i \in nested_statements :
            /\ tree.nodes[i].start_byte = m.byte_offset
            /\ node_text(tree, i) = m.old_text
  /\ (\E m \in emitted : m.mutation_slug = "CR") =>
       \A i \in DOMAIN tree.nodes \ nested_statements :
         tree.nodes[i].kind \in STATEMENTS /\ ~is_in_comment(tree, i) =>
           \E m \in emitted : /\ m.mutation_slug = "CR"
                              /\ m.byte_offset = tree.nodes[i].start_byte

\* an if statement holding an expression statement has been wrapped and
\* replaced: one mutant each, at the if statement
C31_Witness ==
  /\ tree = PatternSource(1)
  /\ nested_statements # {}
  /\ \E m \in emitted : m.mutation_slug = "CR" /\ m.byte_offset = 0
  /\ \E m \in emitted : m.mutation_slug = "ER" /\ m.byte_offset = 0

\* C32: no primitive emits a mutant whose new_text is identical to its
\* old_text: every mutant in the set the primitives emitted, and every one in
\* the vector shuffle_operators returned, changes the text it replaces
C32_NoIdenticalMutant ==
  /\ \A m \in emitted : m.new_text # m.old_text
  /\ \A k \in DOMAIN partials : partials[k].new_text # partials[k].old_text

\* the condition nodes replace_condition reaches by the field lookup, and
\* those it reaches as the first named child after the keyword
field_conditions ==
  {j \in DOMAIN tree.nodes :
     /\ tree.nodes[j].field = "condition"
     /\ tree.nodes[j].parent # 0
     /\ tree.nodes[tree.nodes[j].parent].kind \in {"if_statement", "while_statement"}}

positional_conditions ==
  {j \in DOMAIN tree.nodes :
     /\ tree.nodes[j].field = ""
     /\ tree.nodes[j].parent # 0
     /\ tree.nodes[tree.nodes[j].parent].kind \in {"if_statement", "while_statement"}
     /\ tree.nodes[j].kind \in {"parenthesized_expression", "identifier", "boolean_literal"}}

\* C34: replace_condition keeps the parentheses of the condition: an old
\* text that starts with ( and ends with ) is replaced by (false), any other
\* by false, for a condition found by its field and for one found by position
C34_ParenthesesPreserved ==
  \A m \in emitted : m.mutation_slug \in {"IF", "WF"} =>
    /\ \E j \in field_conditions \cup positional_conditions :
         /\ tree.nodes[j].start_byte = m.byte_offset
         /\ node_text(tree, j) = m.old_text
    /\ m.old_text # << >>
    /\ m.new_text =
         IF Head(m.old_text) = "(" /\ m.old_text[Len(m.old_text)] = ")"
         THEN <<"(", "f", "a", "l", "s", "e", ")">>
         ELSE <<"f", "a", "l", "s", "e">>

\* a while statement without a condition field and with a parenthesised
\* condition has had its condition replaced by (false)
C34_Witness ==
  /\ field_conditions = {}
  /\ \E j \in positional_conditions : tree.nodes[j].kind = "parenthesized_expression"
  /\ \E m \in emitted :
       /\ m.mutation_slug = "WF"
       /\ m.old_text = <<"(", "c", ")">>
       /\ m.new_text = <<"(", "f", "a", "l", "s", "e", ")">>

\* the children of binary expressions whose text is an arithmetic operator
operator_children ==
  {j \in DOMAIN tree.nodes :
     /\ tree.nodes[j].parent # 0
     /\ tree.nodes[tree.nodes[j].parent].kind = "binary_expression"
     /\ \E k \in DOMAIN ARITHMETIC : node_text(tree, j) = ARITHMETIC[k]}

\* the place of an operator in the configured list
operator_index(op) == CHOOSE k \in DOMAIN ARITHMETIC : ARITHMETIC[k] = op

\* the mutants of the vector at one byte offset, in the order of the vector
pushed_at(offset) == SelectSeq(partials, LAMBDA m : m.byte_offset = offset)

\* C33: for each child of a binary expression whose text is one of the n
\* configured operators, shuffle_operators returns exactly n - 1 mutants at
\* the child's offset: one per other operator, none for the operator itself,
\* in the order of the configured list; it returns nothing else, and the set
\* the rulebook collects holds the same mutants
C33_OneMutantPerOtherOperator ==
  partials # << >> =>
    /\ \A j \in operator_children :
         LET got == pushed_at(tree.nodes[j].start_byte) IN
           /\ Len(got) = Len(ARITHMETIC) - 1
           /\ {got[k].new_text : k \in DOMAIN got}
                = {ARITHMETIC[k] : k \in DOMAIN ARITHMETIC} \ {node_text(tree, j)}
           /\ \A k \in DOMAIN got : got[k].old_text = node_text(tree, j)
           /\ \A k, l \in DOMAIN got :
                k < l => operator_index(got[k].new_text) < operator_index(got[l].new_text)
    /\ \A k \in DOMAIN partials :
         \E j \in operator_children : tree.nodes[j].start_byte = partials[k].byte_offset
    /\ {partials[k] : k \in DOMAIN partials}
         = shuffle_operators(tree, {"binary_expression"}, ARITHMETIC, "AOS")

\* a + b - c has been shuffled: three mutants at the + and three at the -,
\* those of the outer expression first
C33_Witness ==
  /\ Cardinality(operator_children) = 2
  /\ Len(partials) = 6
  /\ partials[1].old_text = <<"-">> /\ partials[1].new_text = <<"+">>
  /\ partials[4].old_text = <<"+">> /\ partials[4].new_text = <<"-">>

(***************************************************************************)
(* Listings and statistics over the catalog                                *)
(***************************************************************************)
\* SqlStore::get_mutants: the mutants of a target
get_mutants(ms, target_id) == {m \in ms : m.target_id = target_id}

\* SqlStore::get_outcomes: the outcome rows joined with the mutants of a
\* target, one (mutant, outcome) pair per joined row
get_outcomes(ms, outs, target_id) ==
  {<<m, o>> : m \in get_mutants(ms, target_id), o \in outs} \cap
  {x \in ms \X outs : x[1].id = x[2].mutant_id}

\* a listing that ignores the tested and untested flags
get_mutants_filtered_no_flags(ts, ms, outs, target_ids, line, mutation_type, tested, untested) ==
  {m.id : m \in {r \in ms :
     /\ \E t \in ts : t.id = r.target_id
     /\ \A ids \in target_ids : r.target_id \in ids
     /\ \A slug \in mutation_type : r.mutation_slug = slug
     /\ \A line_num \in line :
          line_num >= get_lines(r)[1] /\ line_num <= get_lines(r)[2]}}

\* SqlStore::get_mutants_filtered: mutants JOIN targets, LEFT JOIN outcomes
\* when a flag is set, WHERE o.mutant_id IS NOT NULL for tested alone and
\* IS NULL for untested alone, then the target ids, the slug and the line
\* (an Option is the empty set or a singleton)
get_mutants_filtered(ts, ms, outs, target_ids, line, mutation_type, tested, untested) ==
  {m.id : m \in {r \in ms :
     /\ \E t \in ts : t.id = r.target_id
     /\ (tested /\ ~untested) => \E o \in outs : o.mutant_id = r.id
     /\ (untested /\ ~tested) => ~\E o \in outs : o.mutant_id = r.id
     /\ \A ids \in target_ids : r.target_id \in ids
     /\ \A slug \in mutation_type : r.mutation_slug = slug
     /\ \A line_num \in line :
          line_num >= get_lines(r)[1] /\ line_num <= get_lines(r)[2]}}

\* severity records selected whatever the status of the outcome
severity_records_any_status(ms, outs, target_ids) ==
  {x \in ms \X outs :
     /\ x[1].id = x[2].mutant_id
     /\ \A ids \in target_ids : x[1].target_id \in ids}

\* SELECT m.mutation_slug, o.status FROM mutants m JOIN outcomes o
\* WHERE [m.target_id = ? AND] o.status IN ('TestFail', 'Uncaught')
severity_records(ms, outs, target_ids) ==
  {x \in ms \X outs :
     /\ x[1].id = x[2].mutant_id
     /\ \A ids \in target_ids : x[1].target_id \in ids
     /\ x[2].status \in {"TestFail", "Uncaught"}}

\* the HashMap built from the records: per slug (eligible, caught)
severity_stats_of(records) ==
  [slug \in {x[1].mutation_slug : x \in records} |->
     <<Cardinality({x \in records : x[1].mutation_slug = slug}),
       Cardinality({x \in records :
                      x[1].mutation_slug = slug /\ x[2].status = "TestFail"})>>]

\* usize subtraction: the difference, or nothing when it would be negative
\* (a panic in a debug build, a wrapped value in a release build)
checked_sub(a, b) == IF b <= a THEN {a - b} ELSE {}

\* SqlStore::get_target_stats
get_target_stats(ms, outs, target_id) ==
  LET rows == get_outcomes(ms, outs, target_id)
      n(statuses) == Cardinality({x \in rows : x[2].status \in statuses})
      total_mutants == Cardinality(get_mutants(ms, target_id))
      tested == n({"TestFail", "Uncaught"})
  IN [total_mutants |-> total_mutants,
      tested |-> tested,
      untested |-> UNION {UNION {checked_sub(b, n({"Skipped"}))
                                   : b \in checked_sub(a, n({"Timeout"}))}
                            : a \in checked_sub(total_mutants, tested)},
      caught |-> n({"TestFail"}),
      uncaught |-> n({"Uncaught"}),
      timeout |-> n({"Timeout"}),
      skipped |-> n({"Skipped"}),
      severity_stats |-> severity_stats_of(severity_records(ms, outs, {{target_id}}))]

\* SqlStore::get_campaign_severity_stats
get_campaign_severity_stats(ms, outs) ==
  severity_stats_of(severity_records(ms, outs, {}))

\* the += of generate_status_report over the targets
RECURSIVE campaign_total(_, _)
campaign_total(counts, ids) ==
  IF ids = {} THEN 0
  ELSE LET id == CHOOSE i \in ids : TRUE
       IN counts[id] + campaign_total(counts, ids \ {id})

\* generate_status_report: the stats of every target, the campaign totals
\* and the mutants that count for the progress
generate_status_report(ts, ms, outs) ==
  LET ids == {t.id : t \in ts}
      stats == [id \in ids |-> get_target_stats(ms, outs, id)]
  IN [targets |-> stats,
      total_mutants |-> campaign_total([id \in ids |-> stats[id].total_mutants], ids),
      tested |-> campaign_total([id \in ids |-> stats[id].tested], ids),
      skipped |-> campaign_total([id \in ids |-> stats[id].skipped], ids),
      testable_mutants |->
        checked_sub(campaign_total([id \in ids |-> stats[id].total_mutants], ids),
                    campaign_total([id \in ids |-> stats[id].skipped], ids)),
      severity_stats |-> get_campaign_severity_stats(ms, outs)]

\* a catalog of two targets without mutants
InitStats ==
  /\ targets = {[id |-> 1, path |-> "src/a.rs", file_hash |-> "h1"],
                [id |-> 2, path |-> "src/b.rs", file_hash |-> "h2"]}
  /\ mutants = {} /\ outcomes = {} /\ latest = {}
  /\ last = [op |-> "open", arg |-> None, was |-> {}, ret |-> {}]
  /\ cfg = None
  /\ runner_idle /\ config_idle /\ engine_idle /\ later_idle

\* the runner persisting an outcome of a stored mutant, any status
call_add_outcome_any_status ==
  /\ \E m \in mutants : \E o \in {r \in OutcomeRows(m.id) : r.time = 1} :
       /\ outcomes' = add_outcome(outcomes, o)
       /\ latest' = {l \in latest : l.mutant_id # m.id} \cup {o}
       /\ last' = [op |-> "add_outcome", arg |-> m.id,
                   was |-> {x \in outcomes : x.mutant_id = m.id}, ret |-> {}]
  /\ UNCHANGED <<targets, mutants>>
  /\ UNCHANGED outside_store

\* the print mutants command with its filters
call_get_mutants_filtered ==
  /\ \E tested, untested \in BOOLEAN,
        target_ids \in {{}} \cup {{{t.id}} : t \in targets},
        line \in {{}, {2}},
        mutation_type \in {{}, {"ER"}} :
       last' = [op |-> "get_mutants_filtered",
                arg |-> [target_ids |-> target_ids, line |-> line,
                         mutation_type |-> mutation_type,
                         tested |-> tested, untested |-> untested],
                was |-> {},
                ret |-> get_mutants_filtered(targets, mutants, outcomes, target_ids,
                                             line, mutation_type, tested, untested)]
  /\ UNCHANGED <<targets, mutants, outcomes, latest>>
  /\ UNCHANGED outside_store

\* the status command
call_generate_status_report ==
  /\ last' = [op |-> "generate_status_report", arg |-> None, was |-> {},
              ret |-> generate_status_report(targets, mutants, outcomes)]
  /\ UNCHANGED <<targets, mutants, outcomes, latest>>
  /\ UNCHANGED outside_store

\* the catalog filled and tested while its status is reported
NextStats ==
  \/ call_add_mutant
  \/ call_add_outcome_any_status
  \/ call_generate_status_report

SpecStats == InitStats /\ [][NextStats]_store_view

\* the catalog filled and tested while its mutants are listed
NextListing ==
  \/ call_add_mutant
  \/ call_add_outcome_uncaught
  \/ call_get_mutants_filtered

SpecListing == InitStats /\ [][NextListing]_store_view

(***************************************************************************)
(* Properties of the listings and statistics                               *)
(***************************************************************************)
\* the entry of a slug in a severity map, (0, 0) when the map has none
entry_of(stats, slug) == IF slug \in DOMAIN stats THEN stats[slug] ELSE <<0, 0>>

\* the mutants of a target and slug whose outcome has one of the statuses
with_status(target_id, slug, statuses) ==
  {m \in mutants :
     /\ m.target_id = target_id
     /\ m.mutation_slug = slug
     /\ \E o \in outcomes : o.mutant_id = m.id /\ o.status \in statuses}

\* C35: for every slug, a target's severity stats give eligible = the number
\* of its mutants of the slug with a TestFail or Uncaught outcome and caught =
\* the number with a TestFail outcome, so caught <= eligible; the campaign
\* stats of the slug are the sums of the targets' stats
C35_SeverityStats ==
  last.op = "generate_status_report" =>
    \A slug \in {"ER", "CR"} :
      LET ids == {t.id : t \in targets}
          per_target == [id \in ids |->
                           entry_of(last.ret.targets[id].severity_stats, slug)]
      IN /\ \A id \in ids :
              /\ per_target[id][1]
                   = Cardinality(with_status(id, slug, {"TestFail", "Uncaught"}))
              /\ per_target[id][2] = Cardinality(with_status(id, slug, {"TestFail"}))
              /\ per_target[id][2] <= per_target[id][1]
              /\ slug \in DOMAIN last.ret.targets[id].severity_stats
                   <=> per_target[id][1] > 0
         /\ entry_of(last.ret.severity_stats, slug)[1]
              = campaign_total([id \in ids |-> per_target[id][1]], ids)
         /\ entry_of(last.ret.severity_stats, slug)[2]
              = campaign_total([id \in ids |-> per_target[id][2]], ids)

\* the status of a campaign with an ER mutant in each target, one caught and
\* one not, and a CR mutant that timed out or was skipped
C35_Witness ==
  /\ last.op = "generate_status_report"
  /\ last.ret.targets[1].severity_stats = [slug \in {"ER"} |-> <<1, 1>>]
  /\ last.ret.targets[2].severity_stats = [slug \in {"ER"} |-> <<1, 0>>]
  /\ last.ret.severity_stats = [slug \in {"ER"} |-> <<2, 1>>]

\* the mutants that pass the target, slug and line filters of a listing
passing(filters) ==
  {m \in mutants :
     /\ filters.target_ids # {} => \E ids \in filters.target_ids : m.target_id \in ids
     /\ filters.mutation_type # {} => m.mutation_slug \in filters.mutation_type
     /\ filters.line # {} =>
          \E n \in filters.line : get_lines(m)[1] <= n /\ n <= get_lines(m)[2]}

\* the mutants with an outcome row
has_outcome == {m \in mutants : \E o \in outcomes : o.mutant_id = m.id}

\* the listing of the tested and that of the untested mutants, unfiltered
tested_listing ==
  get_mutants_filtered(targets, mutants, outcomes, {}, {}, {}, TRUE, FALSE)

untested_listing ==
  get_mutants_filtered(targets, mutants, outcomes, {}, {}, {}, FALSE, TRUE)

\* C36: with only tested set get_mutants_filtered returns exactly the
\* mutants that have an outcome row, with only untested set exactly those
\* that have none, with both or neither set the outcomes play no part; the
\* two listings partition the mutants, and a mutant moves from the untested
\* to the tested listing exactly when its first outcome is added
C36_TestedUntestedPartition ==
  /\ [](last.op = "get_mutants_filtered" =>
          last.ret =
            {m.id : m \in
               IF last.arg.tested /\ ~last.arg.untested
               THEN passing(last.arg) \cap has_outcome
               ELSE IF last.arg.untested /\ ~last.arg.tested
               THEN passing(last.arg) \ has_outcome
               ELSE passing(last.arg)})
  /\ [](/\ tested_listing \cup untested_listing = {m.id : m \in mutants}
        /\ tested_listing \cap untested_listing = {})
  /\ [][\A m \in mutants :
          (m.id \in untested_listing /\ m.id \in tested_listing')
            <=> (/\ last'.op = "add_outcome" /\ last'.arg = m.id
                 /\ last'.was = {})]_store_view

\* the tested mutants were listed while one mutant had an outcome and
\* another had none
C36_Witness ==
  /\ last.op = "get_mutants_filtered"
  /\ last.arg.tested /\ ~last.arg.untested
  /\ last.arg.target_ids = {} /\ last.arg.line = {} /\ last.arg.mutation_type = {}
  /\ Cardinality(last.ret) = 1
  /\ Cardinality(mutants) = 2

====
